---- MODULE Spec2Model ----
(***************************************************************************)
(* Model of the TeXpresso engine driver (TexEngine): the snapshot fleet,   *)
(* the trace of observations, the undo journal of the virtual file system, *)
(* the fence planner and the edit transaction (begin / notify / end).      *)
(*                                                                         *)
(* The driver is single threaded.  One action of the model is one call of  *)
(* the driver's interface: step() dispatching one request of the head      *)
(* engine, begin_changes(), notify_file_changes(), end_changes().  The     *)
(* engine is the environment: the request it sends is drawn with \E.       *)
(***************************************************************************)
EXTENDS Integers, Sequences, FiniteSets, TLC

(***************************************************************************)
(* Bounds of the model.                                                    *)
(***************************************************************************)
\* read positions the engine reports are 0..MaxPos; files are MaxPos long
MaxPos == 2
\* at most MaxTrace trace records are pushed in the small specifications
MaxTrace == 2
\* at most MaxFleet process records in the small specifications
MaxFleet == 3
\* at most MaxLog journal records in the small specifications
MaxLog == 3
\* at most MaxVfsLog journal records in the specification of the outputs
MaxVfsLog == 5
\* at most MaxFleetTrace trace records in the fleet specification
MaxFleetTrace == 45
\* at most MaxFenceTrace trace records, MaxFenceLog journal records and
\* MaxFenceFleet process records in the specification of the fences
MaxFenceTrace == 4
MaxFenceLog == 6
MaxFenceFleet == 2
\* in the specification of the fence planner the engine reports the
\* positions 1..MaxPlanPos, at time 0 or FarTime, in at most MaxPlanTrace
\* trace records
MaxPlanPos == 17
MaxPlanTrace == 36
FarTime == 2000000
\* at most MaxInbox requests wait in the socket of the head
MaxInbox == 2
\* in the specification of the file system scan: a file of the disk is
\* written at most MaxStat - 1 times, at most MaxScanTrace trace records
\* and MaxScanLog journal records
MaxStat == 2
MaxScanTrace == 3
MaxScanLog == 5
\* in the specification of the wide offsets the engine reports the position
\* 1 or FarPos, the editor changes the byte 1 or FarOffset, with at most
\* MaxWideTrace trace records and MaxWideLog journal records
FarPos == 300
FarOffset == 200
MaxWideTrace == 3
MaxWideLog == 5

(***************************************************************************)
(* Program constants.                                                      *)
(***************************************************************************)
INT_MAX == 2147483647
NOT_IN_TRANSACTION == -2
\* process_t processes[32]
MaxProcesses == 32
\* fence_t fences[16]
MaxFences == 16
\* enum accesslevel
FILE_NONE == 0
FILE_READ == 1
FILE_WRITE == 2

NULL == "NULL"
NoMark == -1

\* the engine's time stamps (ms): at once, and after the snapshot delay
Times == {0, 600}
Positions == 0..MaxPos
\* the file ids of the model's engine (a prefix of the file table)
Fids == {0, 1}
SlotNames == {"stdout", "document", "synctex", "log"}

\* the paths the engine asks for
ReadPaths == {"a.tex"}
MissingPaths == {"none.tex"}
WritePaths == {"a.xdv", "a.log"}
\* a file the main input includes
IncludedPaths == {"b.tex"}
Paths ==
  ReadPaths \cup MissingPaths \cup WritePaths \cup IncludedPaths \cup {"stdout"}

\* the contents a file of the real file system may have: a buffer is named
\* by its index in FileBytes, 0 is no buffer (NULL)
FileBytes == << <<1, 1>>, <<1, 2>>, <<2, 1>>, <<1>>, <<1, 1, 1>> >>
Bytes(k) == IF k = 0 THEN <<>> ELSE FileBytes[k]

\* picture cache values (type, page, bounds): the four bounds are read,
\* kept and written alike, the model carries one.  NoPic is the cleared
\* cache (type -1).
NoPic == [type |-> -1, page |-> 0, bounds |-> 0]
Pics == {[type |-> 0, page |-> 1, bounds |-> b] : b \in {0, 1}}

Min(a, b) == IF a < b THEN a ELSE b

VARIABLES
  entry,      \* path -> fileentry_t fields
  table,      \* st.table : fid -> path or NULL
  st,         \* st.stdout, st.document, st.synctex, st.log : slot -> path or NULL
  log,        \* the undo journal (log_t), a sequence of undo records
  trace,      \* trace[0 .. trace_len-1], as the sequence trace[1 .. Len]
  processes,  \* processes[0 .. process_count-1], as a sequence
  fences,     \* fences[0 .. fence_pos], as a sequence (fence_pos = Len - 1)
  rollback,   \* the transaction record {trace_len, offset, flush}
  forking,    \* the head engine was answered FORK and has not sent CHLD yet
  sigterm,    \* pids that were sent SIGTERM
  closed,     \* socket fds that were closed by the driver
  last,       \* the last operation: what it was, its result, its argument
  aborted,    \* the driver aborted (mabort / abort)
  seen_at,    \* history: seen_at[k + 1] is every entry's seen just before
              \* trace[k] was pushed
  inbox,      \* the requests written to the head's socket and not read yet
  req,        \* history: the request the last step dispatched
  snap_time,  \* history: the engine time at which the last snapshot was
              \* taken (0: the start of the root, -1: not known)
  disk,       \* the real file system: path -> present, data, stat
  wire,       \* the head's socket: the segments the engine wrote and the
              \* driver has not received, one per recvmsg; a segment with
              \* no bytes is the end of the stream
  input,      \* Channel::input: the bytes received and not parsed yet
  passed,     \* the fds received as ancillary data and not handed to a CHLD
              \* yet; passed_fd is the last one, -1 when there is none
  epipe,      \* the driver was killed writing to a socket whose peer is gone
  read_at     \* history: path -> the offset of the running engine's next
              \* READ of the file

vars == <<entry, table, st, log, trace, processes, fences, rollback, forking,
          sigterm, closed, last, aborted, seen_at, inbox, req, snap_time,
          disk, wire, input, passed, epipe, read_at>>

\* the state of the Channel and of the socket under it
chan == <<wire, input, passed, epipe>>

\* the files of the real file system at the start: the sources, MaxPos long.
\* stat stands for (dev, inode, size, mtime): every write gives a new one.
NoFile == [present |-> FALSE, data |-> 0, stat |-> 0]
FirstDisk ==
  [p \in Paths |->
     IF p \in ReadPaths \cup IncludedPaths
     THEN [present |-> TRUE, data |-> 1, stat |-> 1] ELSE NoFile]

\* lookup_path succeeds on the files that are present
OnDisk(path) == disk[path].present

(***************************************************************************)
(* fileentry_t.  Every path has an entry from the start: an entry that was *)
(* never created behaves as one with no data, level NONE and seen -1 in    *)
(* every test the handlers make (filesystem_lookup(..) == NULL is always    *)
(* or-ed with a test of the fields).                                       *)
(*   saved : length of saved.data, -1 when saved.data == NULL              *)
(*   fs_data : 0 when NULL, else the buffer loaded from disk (see Bytes)   *)
(*   fs_stat : 0 when zeroed (st_ino == 0), else the stat of the file read *)
(***************************************************************************)
NewEntry ==
  [seen |-> -1, level |-> FILE_NONE, saved |-> -1, fs_data |-> 0,
   fs_stat |-> 0, pic |-> NoPic]

\* the editor overlay: the paths that have edit_data
HasEdit(path) == path = "a.tex"

\* entry_data(e) != NULL
EntryData(E, path) ==
  E[path].saved >= 0 \/ HasEdit(path) \/ E[path].fs_data # 0

\* length of entry_data(e): outputs have their own length, the overlay is
\* MaxPos long, a file loaded from disk is as long as it was then
DataLen(E, path) ==
  IF E[path].saved >= 0 THEN E[path].saved
  ELSE IF HasEdit(path) THEN MaxPos
  ELSE Len(Bytes(E[path].fs_data))

(***************************************************************************)
(* The undo journal.  state.c is not part of the sources at hand: the      *)
(* journal is modelled from its specification (before a mutation of an     *)
(* entry or of a cell the log records the prior value; a mark is the log   *)
(* length; rollback undoes the records after the mark in LIFO order).      *)
(***************************************************************************)
LogEntryRec(E, path) ==
  [kind |-> "entry", path |-> path, fid |-> -1, prior |-> E[path], cell |-> NULL]
LogCellRec(T, fid) ==
  [kind |-> "cell", path |-> NULL, fid |-> fid, prior |-> NewEntry, cell |-> T[fid]]
LogSlotRec(S, name) ==
  [kind |-> "slot", path |-> name, fid |-> -1, prior |-> NewEntry, cell |-> S[name]]

\* log_snapshot
LogSnapshot(L) == Len(L)

\* one undo step applied to the triple [entry, table, st]
Undo(V, r) ==
  IF r.kind = "entry" THEN [V EXCEPT !.entry[r.path] = r.prior]
  ELSE IF r.kind = "cell" THEN [V EXCEPT !.table[r.fid] = r.cell]
  ELSE [V EXCEPT !.st[r.path] = r.cell]

RECURSIVE UndoTo(_, _, _)
UndoTo(V, L, mark) ==
  IF Len(L) <= mark THEN V
  ELSE UndoTo(Undo(V, L[Len(L)]), SubSeq(L, 1, Len(L) - 1), mark)

\* log_rollback: the VFS after undoing, and the truncated log
LogRollback(E, T, S, L, mark) ==
  LET V == UndoTo([entry |-> E, table |-> T, st |-> S], L, mark)
  IN [entry |-> V.entry, table |-> V.table, st |-> V.st,
      log |-> SubSeq(L, 1, Min(mark, Len(L)))]

\* mark_t restart: the mark taken by the constructor, on the empty journal
restart == LogSnapshot(<<>>)


(***************************************************************************)
(* The part of the driver's state the request handlers compose on.         *)
(***************************************************************************)
Cur ==
  [entry |-> entry, table |-> table, st |-> st, log |-> log,
   trace |-> trace, processes |-> processes]

Commit(S) ==
  /\ entry' = S.entry
  /\ table' = S.table
  /\ st' = S.st
  /\ log' = S.log
  /\ trace' = S.trace
  /\ processes' = S.processes

process_count == Len(processes)
fence_pos == Len(fences) - 1

\* get_process: the head
get_process(P) == P[Len(P)]

log_fileentry(S, path) ==
  [S EXCEPT !.log = Append(@, LogEntryRec(S.entry, path))]
log_filecell(S, fid) ==
  [S EXCEPT !.log = Append(@, LogCellRec(S.table, fid))]
log_slot(S, name) ==
  [S EXCEPT !.log = Append(@, LogSlotRec(S.st, name))]

(***************************************************************************)
(* record_seen: coalesce with the last record of the same entry unless a   *)
(* snapshot was taken exactly at the head's trace length, else push        *)
(* (entry, previous seen, time).                                           *)
(***************************************************************************)
\* fault: the record keeps the new seen instead of the previous one
record_seen_after(S, path, seen, time) ==
  LET n == Len(S.processes)
      p == S.processes[n]
  IN IF p.trace_len > 0 /\ S.trace[p.trace_len].entry = path
        /\ (n <= 1 \/ S.processes[n - 1].trace_len # p.trace_len)
     THEN [S EXCEPT !.trace[p.trace_len].time = time,
                    !.entry[path].seen = seen]
     ELSE [S EXCEPT
             !.trace = Append(SubSeq(@, 1, p.trace_len),
                              [entry |-> path, seen |-> seen, time |-> time]),
             !.entry[path].seen = seen,
             !.processes[n].trace_len = @ + 1]

\* fault: a snapshot taken at the head's trace length is not looked at
CoalescesAcross(S, path) ==
  LET p == S.processes[Len(S.processes)]
  IN p.trace_len > 0 /\ S.trace[p.trace_len].entry = path

Coalesces(S, path) ==
  LET P == S.processes
      n == Len(P)
      p == P[n]
  IN /\ p.trace_len > 0
     /\ S.trace[p.trace_len].entry = path
     /\ (n <= 1 \/ P[n - 1].trace_len # p.trace_len)

record_seen(S, path, seen, time) ==
  LET n == Len(S.processes)
      p == S.processes[n]
  IN IF Coalesces(S, path)
     THEN [S EXCEPT !.trace[p.trace_len].time = time,
                    !.entry[path].seen = seen]
     ELSE [S EXCEPT
             !.trace = Append(SubSeq(@, 1, p.trace_len),
                              [entry |-> path, seen |-> S.entry[path].seen,
                               time |-> time]),
             !.entry[path].seen = seen,
             !.processes[n].trace_len = @ + 1]

\* revert_trace
revert_trace(E, te) == [E EXCEPT ![te.entry].seen = te.seen]

\* revert trace[lo .. hi-1] (C indices) in reverse order
RECURSIVE RevertRange(_, _, _, _)
RevertRange(E, T, lo, hi) ==
  IF hi <= lo THEN E ELSE RevertRange(revert_trace(E, T[hi]), T, lo, hi - 1)

(***************************************************************************)
(* close_process, pop_process, decimate_processes                          *)
(***************************************************************************)
\* the pids close_process signals among the records R (those still open)
KillPids(R) == {r.pid : r \in {x \in R : x.fd # -1}}
KillFds(R) == {r.fd : r \in {x \in R : x.fd # -1}}

\* fault: only a quarter of the older records is folded
DecimateBoundQuarter(n) == (n - 8) \div 4

\* decimate_processes: number of pairs folded
DecimateBound(n) == (n - 8) \div 2

\* decimate_processes: the C index of the record that lands in slot i
DecimateSource(i, bound) == IF i < bound THEN 2 * i + 1 ELSE i + bound

\* decimate_processes: the C indices that are closed
DecimateClosed(bound) == {2 * i : i \in 0..(bound - 1)}

Decimate(P) ==
  LET n == Len(P)
      bound == DecimateBound(n)
  IN [i \in 1..(n - bound) |-> P[DecimateSource(i - 1, bound) + 1]]

DecimateEvicted(P) ==
  {P[c + 1] : c \in DecimateClosed(DecimateBound(Len(P)))}

(***************************************************************************)
(* need_snapshot (the __APPLE__ branch is not compiled in)                 *)
(***************************************************************************)
\* fault: the pending fences are not looked at
need_snapshot_nofence(P, T, F, time) ==
  LET process == Len(P) - 1
  IN IF process > 0
       THEN IF P[process + 1].trace_len = P[process].trace_len THEN FALSE
            ELSE time > 500 + T[P[process].trace_len].time
       ELSE time > 500 + 0

need_snapshot(P, T, F, time) ==
  LET process == Len(P) - 1
  IN IF Len(F) - 1 # -1 THEN FALSE
     ELSE IF process > 0
       THEN IF P[process + 1].trace_len = P[process].trace_len THEN FALSE
            ELSE time > 500 + T[P[process].trace_len].time
       ELSE time > 500 + 0


(***************************************************************************)
(* The state after the constructor: no process, empty journal and trace,   *)
(* no fence, no transaction.                                               *)
(***************************************************************************)
\* a request as the engine wrote it; NoReq before the first one
Req(kind, fid, pos, size, time) ==
  [kind |-> kind, fid |-> fid, pos |-> pos, size |-> size, time |-> time]
NoReq == Req("none", -1, 0, 0, 0)

Init ==
  /\ entry = [p \in Paths |-> NewEntry]
  /\ table = [f \in Fids |-> NULL]
  /\ st = [n \in SlotNames |-> NULL]
  /\ log = <<>>
  /\ trace = <<>>
  /\ processes = <<>>
  /\ fences = <<>>
  /\ rollback = [trace_len |-> NOT_IN_TRANSACTION, offset |-> -1, flush |-> 0]
  /\ forking = FALSE
  /\ sigterm = {}
  /\ closed = {}
  /\ last = [op |-> "new", res |-> "none", arg |-> 0]
  /\ aborted = FALSE
  /\ seen_at = <<>>
  /\ inbox = <<>>
  /\ req = NoReq
  /\ snap_time = 0
  /\ disk = FirstDisk
  /\ wire = <<>>
  /\ input = <<>>
  /\ passed = <<>>
  /\ epipe = FALSE
  /\ read_at = [p \in Paths |-> 0]

Did(op, res, arg) == last' = [op |-> op, res |-> res, arg |-> arg]

\* mabort() / abort(): the driver is gone, nothing else changes
Abort(op) ==
  /\ aborted' = TRUE
  /\ Did(op, "abort", 0)
  /\ UNCHANGED <<entry, table, st, log, trace, processes, fences, rollback,
                 forking, sigterm, closed>>

\* the pid (and the socket) of a new engine process: one no record of the
\* fleet holds; the system may hand out again the pid of a dead process
FreshPid(P) ==
  CHOOSE n \in 1..(Len(P) + 1) :
    /\ \A i \in 1..Len(P) : P[i].pid # n
    /\ \A m \in 1..(n - 1) : \E i \in 1..Len(P) : P[i].pid = m

\* get_status() == DOC_RUNNING
Running == process_count > 0 /\ get_process(processes).fd > -1

\* step() reads a request: the driver is alive, outside a transaction (edits
\* are applied as a block between two steps), the head has sent something
CanStep == ~aborted /\ rollback.trace_len = NOT_IN_TRANSACTION /\ Running

\* the time stamp of a request is not before the last traced observation
LastTime ==
  IF process_count = 0 THEN 0
  ELSE LET p == get_process(processes)
       IN IF p.trace_len > 0 THEN trace[p.trace_len].time ELSE 0
RequestTimes == {t \in Times : t >= LastTime}

\* every entry's seen
SeenMap(E) == [p \in Paths |-> E[p].seen]

\* the history of seen follows the trace: a push records the values before it
TrackSeen ==
  seen_at' = IF Len(trace') > Len(trace) THEN Append(seen_at, SeenMap(entry))
             ELSE SubSeq(seen_at, 1, Len(trace'))

\* the engines of these specifications have each request read as it is
\* written: nothing waits in the socket, no request is recorded
Track ==
  /\ TrackSeen
  /\ UNCHANGED <<inbox, req, snap_time, disk, chan, read_at>>

\* the small specifications stop at the bounds
Small ==
  /\ Track
  /\ Len(trace') <= MaxTrace
  /\ Len(log') <= MaxLog
  /\ Len(processes') <= MaxFleet

(***************************************************************************)
(* prepare_process: step(restart_if_needed = true) on an empty fleet rolls *)
(* the journal back to the restart mark and launches the root.             *)
(***************************************************************************)
Restart ==
  /\ ~aborted
  /\ rollback.trace_len = NOT_IN_TRANSACTION
  /\ process_count = 0
  /\ LET R == LogRollback(entry, table, st, log, restart)
     IN /\ entry' = R.entry
        /\ table' = R.table
        /\ st' = R.st
        /\ log' = R.log
  /\ processes' = <<[pid |-> FreshPid(processes), fd |-> FreshPid(processes),
                     trace_len |-> 0, snap |-> NoMark]>>
  /\ sigterm' = sigterm \ {FreshPid(processes)}
  /\ closed' = closed \ {FreshPid(processes)}
  /\ forking' = FALSE
  /\ Did("restart", "none", 0)
  /\ UNCHANGED <<trace, fences, rollback, aborted>>

(***************************************************************************)
(* answer_query, query::open                                               *)
(***************************************************************************)
\* the singleton output slot a written path is attached to, NULL if none
SlotOf(path) ==
  IF path = "stdout" THEN "stdout"
  ELSE IF path = "a.xdv" THEN "document"
  ELSE IF path = "a.synctex" THEN "synctex"
  ELSE IF path = "a.log" THEN "log"
  ELSE NULL

\* fault: the probe of a missing file is recorded as a read from offset 0
OpenPassZero(S, path, time) ==
  record_seen(log_fileentry(S, path), path, 0, time)

OpenPass(S, path, time) ==
  record_seen(log_fileentry(S, path), path, INT_MAX, time)

OpenRead(S, path) ==
  IF S.entry[path].level < FILE_READ
  THEN IF ~OnDisk(path)
       THEN [S EXCEPT !.entry[path].level = FILE_READ,
                      !.entry[path].fs_stat = 0]
       ELSE [S EXCEPT !.entry[path].fs_data = disk[path].data,
                      !.entry[path].level = FILE_READ,
                      !.entry[path].fs_stat = disk[path].stat]
  ELSE S

OpenWrite(S, path) ==
  LET S1 == [S EXCEPT !.entry[path].saved = 0,
                      !.entry[path].level = FILE_WRITE]
      slot == SlotOf(path)
  IN IF slot = NULL THEN S1
     ELSE [log_slot(S1, slot) EXCEPT !.st[slot] = path]

OpenOk(S, fid, path, mode, time) ==
  LET S1 == log_fileentry(log_filecell(S, fid), path)
      S2 == [S1 EXCEPT !.table[fid] = path]
      S3 == IF S2.entry[path].seen < 0 THEN record_seen(S2, path, 0, time)
            ELSE S2
  IN IF mode = "w" THEN OpenWrite(S3, path) ELSE OpenRead(S3, path)

\* a mode other than w reads the entry: there is nothing to read when it was
\* never opened, no file is found and the editor has no overlay for it
OpenNothing(E, path, mode) ==
  /\ mode # "w"
  /\ E[path].level < FILE_READ
  /\ ~OnDisk(path)
  /\ ~HasEdit(path)

Open(fid, path, mode, time) ==
  /\ CanStep /\ ~forking
  /\ IF table[fid] # NULL
       \/ (mode = "w" /\ SlotOf(path) # NULL /\ st[SlotOf(path)] # NULL)
     THEN Abort("open")
     ELSE IF mode = "r" /\ ~EntryData(entry, path) /\ ~OnDisk(path)
     THEN /\ Commit(OpenPass(Cur, path, time))
          /\ Did("open", "PASS", 0)
          /\ UNCHANGED <<fences, rollback, forking, sigterm,
                         closed, aborted>>
     ELSE IF OpenNothing(entry, path, mode)
     THEN Abort("open")
     ELSE /\ Commit(OpenOk(Cur, fid, path, mode, time))
          /\ Did("open", "OPEN", 0)
          /\ UNCHANGED <<fences, rollback, forking, sigterm,
                         closed, aborted>>

(***************************************************************************)
(* answer_query, query::read                                               *)
(***************************************************************************)
\* the byte count after clipping to the data and to the top fence; < 0 aborts
ReadCount(E, F, path, pos, size) ==
  LET n == Min(size, DataLen(E, path) - pos)
  IN IF Len(F) > 0 /\ F[Len(F)].entry = path /\ F[Len(F)].position < pos + n
     THEN F[Len(F)].position - pos
     ELSE n

\* the read trips the top fence
ReadTrips(E, F, path, pos, size) ==
  LET n == Min(size, DataLen(E, path) - pos)
  IN /\ Len(F) > 0 /\ F[Len(F)].entry = path /\ F[Len(F)].position < pos + n
     /\ F[Len(F)].position - pos = 0

Read(fid, pos, size, time) ==
  /\ CanStep /\ ~forking
  /\ LET path == table[fid]
     IN IF path = NULL
        THEN Abort("read")
        ELSE IF \/ entry[path].level < FILE_READ
                \/ pos > DataLen(entry, path)
                \/ ReadCount(entry, fences, path, pos, size) < 0
        THEN Abort("read")
        ELSE IF ReadTrips(entry, fences, path, pos, size)
        THEN /\ fences' = SubSeq(fences, 1, Len(fences) - 1)
             /\ forking' = TRUE
             /\ Did("read", "FORK", 0)
             /\ UNCHANGED <<entry, table, st, log, trace, processes, rollback,
                            sigterm, closed, aborted>>
        ELSE IF need_snapshot(processes, trace, fences, time)
        THEN /\ forking' = TRUE
             /\ Did("read", "FORK", 1)
             /\ UNCHANGED <<entry, table, st, log, trace, processes, fences,
                            rollback, sigterm, closed, aborted>>
        ELSE /\ Did("read", "READ", ReadCount(entry, fences, path, pos, size))
             /\ UNCHANGED <<entry, table, st, log, trace, processes, fences,
                            rollback, forking, sigterm, closed,
                            aborted>>


(***************************************************************************)
(* answer_query, query::writ (fid -1 is the engine's standard output)      *)
(***************************************************************************)
WritStdout(S) ==
  IF S.st["stdout"] # NULL THEN S
  ELSE LET S1 == log_slot(log_fileentry(S, "stdout"), "stdout")
           S2 == [S1 EXCEPT !.st["stdout"] = "stdout"]
       IN IF S2.entry["stdout"].saved < 0
          THEN [S2 EXCEPT !.entry["stdout"].saved = 0,
                          !.entry["stdout"].level = FILE_WRITE]
          ELSE S2

WritData(S, path, pos, size) ==
  LET S1 == log_fileentry(S, path)
  IN IF pos + size > S1.entry[path].saved
     THEN [S1 EXCEPT !.entry[path].saved = pos + size]
     ELSE S1

Writ(fid, pos, size) ==
  /\ CanStep /\ ~forking
  /\ LET S0 == IF fid = -1 THEN WritStdout(Cur) ELSE Cur
         path == IF fid = -1 THEN S0.st["stdout"] ELSE table[fid]
         wpos == IF fid = -1 THEN S0.entry[path].saved ELSE pos
     IN IF (fid = -1 /\ pos # 0) \/ path = NULL
        THEN Abort("writ")
        ELSE IF S0.entry[path].level # FILE_WRITE
        THEN Abort("writ")
        ELSE /\ wpos + size <= MaxPos
             /\ Commit(WritData(S0, path, wpos, size))
             /\ Did("writ", "DONE", 0)
             /\ UNCHANGED <<fences, rollback, forking, sigterm,
                            closed, aborted>>

(***************************************************************************)
(* answer_query, query::clos: the stdout and log slots are released, the   *)
(* document and synctex slots stay attached                                *)
(***************************************************************************)
ClosSlot(S, path, slot) ==
  IF S.st[slot] = path THEN [log_slot(S, slot) EXCEPT !.st[slot] = NULL] ELSE S

\* fault: the close releases the document and synctex slots as well
ClosOkReleasesAll(S, fid) ==
  LET path == S.table[fid]
      S1 == [log_filecell(S, fid) EXCEPT !.table[fid] = NULL]
  IN ClosSlot(ClosSlot(ClosSlot(ClosSlot(S1, path, "stdout"), path, "log"),
                       path, "document"), path, "synctex")

ClosOk(S, fid) ==
  LET path == S.table[fid]
      S1 == [log_filecell(S, fid) EXCEPT !.table[fid] = NULL]
  IN ClosSlot(ClosSlot(S1, path, "stdout"), path, "log")

Clos(fid) ==
  /\ CanStep /\ ~forking
  /\ IF table[fid] = NULL
     THEN Abort("clos")
     ELSE /\ Commit(ClosOk(Cur, fid))
          /\ Did("clos", "DONE", 0)
          /\ UNCHANGED <<fences, rollback, forking, sigterm,
                         closed, aborted>>

(***************************************************************************)
(* answer_query, query::seen                                               *)
(***************************************************************************)
\* the checks of the handler that abort the driver
SeenAborts(E, T, F, fid, pos) ==
  \/ T[fid] = NULL
  \/ /\ T[fid] # NULL
     /\ \/ E[T[fid]].level < FILE_READ
        \/ /\ Len(F) > 0
           /\ F[Len(F)].entry = T[fid]
           /\ F[Len(F)].position < pos

SeenOk(S, fid, pos, time) ==
  LET path == S.table[fid]
  IN IF pos <= S.entry[path].seen THEN S
     ELSE record_seen(log_fileentry(S, path), path, pos, time)

Seen(fid, pos, time) ==
  /\ CanStep /\ ~forking
  /\ IF SeenAborts(entry, table, fences, fid, pos)
     THEN Abort("seen")
     ELSE /\ Commit(SeenOk(Cur, fid, pos, time))
          /\ Did("seen", "none", 0)
          /\ UNCHANGED <<fences, rollback, forking, sigterm,
                         closed, aborted>>

(***************************************************************************)
(* answer_query, query::chld: decimate a full fleet, take the journal mark *)
(* of the fork point in the parent's record, append the child's record.    *)
(* The engine sends CHLD only after a FORK answer.                         *)
(***************************************************************************)
\* fault: a full fleet is not decimated
ChldFleetKeep(P) == P

\* fault: the child's record starts with an empty trace
ChldPushZero(P, L, pid, fd) ==
  Append([P EXCEPT ![Len(P)].snap = LogSnapshot(L)],
         [pid |-> pid, fd |-> fd, trace_len |-> 0, snap |-> NoMark])

ChldFleet(P) == IF Len(P) = MaxProcesses THEN Decimate(P) ELSE P
ChldEvicted(P) == IF Len(P) = MaxProcesses THEN DecimateEvicted(P) ELSE {}

ChldPush(P, L, pid, fd) ==
  LET n == Len(P)
  IN Append([P EXCEPT ![n].snap = LogSnapshot(L)],
            [pid |-> pid, fd |-> fd, trace_len |-> P[n].trace_len,
             snap |-> NoMark])

\* fault: DONE is written to the socket the CHLD brought
ChldReplyFdChild(P, fd) == fd

\* the socket DONE is written to, and flushed by step(): the parent's
ChldReplyFd(P, fd) == get_process(P).fd

\* the socket step() polls and reads the next request from
StepFd(P) == get_process(P).fd

Chld(pid, fd) ==
  /\ CanStep /\ forking
  /\ processes' = ChldPush(ChldFleet(processes), log, pid, fd)
  /\ sigterm' = (sigterm \ {pid}) \cup KillPids(ChldEvicted(processes))
  /\ closed' = (closed \ {fd}) \cup KillFds(ChldEvicted(processes))
  /\ forking' = FALSE
  /\ Did("chld", "DONE", ChldReplyFd(ChldFleet(processes), fd))
  /\ UNCHANGED <<entry, table, st, log, trace, fences, rollback, aborted>>

(***************************************************************************)
(* answer_query, query::spic: the cache is written without a journal entry *)
(***************************************************************************)
SpicOk(S, path, pic) ==
  IF S.entry[path].level = FILE_READ THEN [S EXCEPT !.entry[path].pic = pic]
  ELSE S

Spic(path, pic) ==
  /\ CanStep /\ ~forking
  /\ Commit(SpicOk(Cur, path, pic))
  /\ Did("spic", "DONE", 0)
  /\ UNCHANGED <<fences, rollback, forking, sigterm, closed, aborted>>

(***************************************************************************)
(* answer_query, query::gpic: the cached bounds of a read entry, when the  *)
(* cache holds the type and page asked for.  The answer is the item        *)
(* write_item<float> puts on the wire.                                     *)
(***************************************************************************)
RECURSIVE Pow2(_)
Pow2(n) == IF n = 0 THEN 1 ELSE 2 * Pow2(n - 1)

\* position of the highest bit of u > 0
RECURSIVE HighBit(_)
HighBit(u) == IF u < 2 THEN 0 ELSE 1 + HighBit(u \div 2)

\* try_read_item<float>: the four bytes are copied into a uint32_t, and the
\* optional<float> is built from that integer: the value of the float is
\* the integer, rounded to the 24 bits of a float's significand (to nearest,
\* ties to even)
U32ToFloat(u) ==
  IF u = 0 \/ HighBit(u) <= 23 THEN u
  ELSE LET s == HighBit(u) - 23
           q == u \div Pow2(s)
           r == u % Pow2(s)
           up == r > Pow2(s - 1) \/ (r = Pow2(s - 1) /\ q % 2 = 1)
       IN (IF up THEN q + 1 ELSE q) * Pow2(s)

\* write_item<float>: the four bytes of the float, as a little-endian
\* integer, for a float whose value v is a non-negative integer
F32Bits(v) ==
  IF v = 0 THEN 0
  ELSE LET e == HighBit(v)
           m == IF e <= 23 THEN v * Pow2(23 - e) ELSE v \div Pow2(e - 23)
       IN (e + 127) * Pow2(23) + (m - Pow2(23))

\* read_query, Q_SPIC: the cache the handler is given
ParsedPic(type, page, bits) ==
  [type |-> type, page |-> page, bounds |-> U32ToFloat(bits)]

GpicHit(E, path, type, page) ==
  /\ E[path].level = FILE_READ
  /\ E[path].pic.type = type
  /\ E[path].pic.page = page

Gpic(path, type, page) ==
  /\ CanStep /\ ~forking
  /\ IF GpicHit(entry, path, type, page)
     THEN Did("gpic", "GPIC", F32Bits(entry[path].pic.bounds))
     ELSE Did("gpic", "PASS", 0)
  /\ UNCHANGED <<entry, table, st, log, trace, processes, fences, rollback,
                 forking, sigterm, closed, aborted>>

(***************************************************************************)
(* step() on a head whose socket is at end of stream: read_query closes    *)
(* the process, the record stays in the fleet with fd = -1.                *)
(***************************************************************************)
CloseHead(P) == [P EXCEPT ![Len(P)].fd = -1]

Eof ==
  /\ CanStep
  /\ processes' = CloseHead(processes)
  /\ sigterm' = sigterm \cup KillPids({get_process(processes)})
  /\ closed' = closed \cup KillFds({get_process(processes)})
  /\ Did("eof", "none", 0)
  /\ UNCHANGED <<entry, table, st, log, trace, fences, rollback, forking,
                 aborted>>


(***************************************************************************)
(* step() on a head that has nothing pending within 10 ms: it returns 0    *)
(***************************************************************************)
\* fault: the head that has nothing to say is closed
IdleHeadClosed(P) == [P EXCEPT ![Len(P)].fd = -1]

\* the fleet after step() found nothing pending
IdleHead(P) == P

Idle ==
  /\ CanStep
  /\ processes' = IdleHead(processes)
  /\ Did("step", "idle", 0)
  /\ UNCHANGED <<entry, table, st, log, trace, fences, rollback, forking,
                 sigterm, closed, aborted>>

(***************************************************************************)
(* The engine writes a request to its socket.  SEEN is not answered: the   *)
(* engine goes on and may write more; after any other request it waits for *)
(* the answer.                                                             *)
(***************************************************************************)
Send(r) ==
  /\ CanStep /\ ~forking
  /\ \A i \in 1..Len(inbox) : inbox[i].kind = "seen"
  /\ Did("send", "none", 0)
  /\ UNCHANGED <<entry, table, st, log, trace, processes, fences, rollback,
                 forking, sigterm, closed, aborted>>

(***************************************************************************)
(* The edit transaction: rollback_begin                                    *)
(***************************************************************************)
Begin ==
  /\ ~aborted
  /\ rollback.trace_len = NOT_IN_TRANSACTION
  /\ IF process_count = 0
     THEN Abort("begin")
     ELSE /\ rollback' = [trace_len |-> get_process(processes).trace_len,
                          offset |-> -1, flush |-> 0]
          /\ Did("begin", "none", 0)
          /\ UNCHANGED <<entry, table, st, log, trace, processes, fences,
                         forking, sigterm, closed, aborted>>

(***************************************************************************)
(* rollback_add_change.  The revert loop pops trace records until the      *)
(* entry's seen is below the changed offset; reading below trace[0] is     *)
(* undefined.                                                              *)
(***************************************************************************)
RECURSIVE AddChangeRevert(_, _, _, _, _)
AddChangeRevert(E, T, path, changed, tl) ==
  IF E[path].seen >= changed
  THEN IF tl = 0 THEN [entry |-> E, trace_len |-> -1, undefined |-> TRUE]
       ELSE AddChangeRevert(revert_trace(E, T[tl]), T, path, changed, tl - 1)
  ELSE [entry |-> E, trace_len |-> tl, undefined |-> FALSE]

\* the tail of rollback_add_change, from the revert loop on
AddChangeTail(E, T, path, changed, tl, flush) ==
  LET R == AddChangeRevert(E, T, path, changed, tl)
  IN IF R.undefined
     THEN /\ aborted' = TRUE
          /\ Did("notify", "undefined", 0)
          /\ UNCHANGED <<entry, rollback>>
     ELSE IF T[R.trace_len + 1].entry # path
     THEN /\ aborted' = TRUE
          /\ Did("notify", "abort", 0)
          /\ UNCHANGED <<entry, rollback>>
     ELSE /\ entry' = R.entry
          /\ rollback' = [trace_len |-> R.trace_len, offset |-> changed,
                          flush |-> flush]
          /\ Did("notify", "none", 0)
          /\ UNCHANGED aborted

InTransaction == ~aborted /\ rollback.trace_len # NOT_IN_TRANSACTION

\* process_pending_messages has something to wait for
DrainNeeded(path, changed) ==
  /\ entry[path].seen < changed
  /\ rollback.trace_len = get_process(processes).trace_len
  /\ rollback.flush = 0
  /\ get_process(processes).fd # -1

\* fault: the change is taken note of and no trace record is reverted
NotifyKeepsTrace(path, changed) ==
  /\ InTransaction
  /\ ~DrainNeeded(path, changed)
  /\ rollback' = [rollback EXCEPT !.offset = changed]
  /\ Did("notify", "none", 0)
  /\ UNCHANGED <<entry, aborted>>
  /\ UNCHANGED <<table, st, log, trace, processes, fences, forking, sigterm, closed>>

\* notify_file_changes when no message is waited for: either the change is
\* beyond what was seen (and the drain returns at once: already flushed or
\* the head is dead), or trace records are reverted
Notify(path, changed) ==
  /\ InTransaction
  /\ ~DrainNeeded(path, changed)
  /\ IF /\ entry[path].seen < changed
        /\ rollback.trace_len = get_process(processes).trace_len
     THEN /\ Did("notify", "none", 0)
          /\ UNCHANGED <<entry, rollback, aborted>>
     ELSE AddChangeTail(entry, trace, path, changed, rollback.trace_len,
                        rollback.flush)
  /\ UNCHANGED <<table, st, log, trace, processes, fences, forking, sigterm, closed>>

\* the drain finds nothing pending within 10 ms: the head is closed and the
\* transaction is marked for a flush
NotifyDrainStuck(path, changed) ==
  /\ InTransaction
  /\ DrainNeeded(path, changed)
  /\ processes' = CloseHead(processes)
  /\ sigterm' = sigterm \cup KillPids({get_process(processes)})
  /\ closed' = closed \cup KillFds({get_process(processes)})
  /\ rollback' = [rollback EXCEPT !.flush = 1]
  /\ Did("notify", "kill", 0)
  /\ UNCHANGED <<entry, table, st, log, trace, fences, forking, aborted>>

\* fault: a head whose pending request is not a SEEN is closed as well
NotifyDrainOtherKills(path, changed) ==
  /\ InTransaction
  /\ DrainNeeded(path, changed)
  /\ processes' = CloseHead(processes)
  /\ sigterm' = sigterm \cup KillPids({get_process(processes)})
  /\ closed' = closed \cup KillFds({get_process(processes)})
  /\ rollback' = [rollback EXCEPT !.flush = 1]
  /\ Did("notify", "kill", 0)
  /\ UNCHANGED <<entry, table, st, log, trace, fences, forking, aborted>>

\* the drain finds a request that is not a SEEN: it is left in the socket
NotifyDrainOther(path, changed) ==
  /\ InTransaction
  /\ DrainNeeded(path, changed)
  /\ rollback' = [rollback EXCEPT !.flush = 1]
  /\ Did("notify", "other", 0)
  /\ UNCHANGED <<entry, table, st, log, trace, processes, fences, forking,
                 sigterm, closed, aborted>>

\* the drain finds a SEEN: it is dispatched, and the change is looked at again
NotifyDrainSeen(path, changed, fid, pos, time) ==
  /\ InTransaction
  /\ DrainNeeded(path, changed)
  /\ ~forking
  /\ IF SeenAborts(entry, table, fences, fid, pos)
     THEN Abort("notify")
     ELSE LET S == SeenOk(Cur, fid, pos, time)
              tl == get_process(S.processes).trace_len
          IN /\ table' = S.table
             /\ st' = S.st
             /\ log' = S.log
             /\ trace' = S.trace
             /\ processes' = S.processes
             /\ IF S.entry[path].seen < changed
                THEN /\ entry' = S.entry
                     /\ rollback' = [rollback EXCEPT !.trace_len = tl,
                                                     !.flush = 1]
                     /\ Did("notify", "seen", 0)
                     /\ UNCHANGED aborted
                ELSE AddChangeTail(S.entry, S.trace, path, changed, tl, 1)
             /\ UNCHANGED <<fences, forking, sigterm, closed>>


(***************************************************************************)
(* rollback_end: the reverted trace index, or "nothing to do".  With the   *)
(* trace unchanged, a flush requested and the head dead, the last record   *)
(* is reverted so that the head is popped.                                 *)
(***************************************************************************)
\* fault: a requested flush always makes the function return true
EndUnchangedNoFlush(rb, p) == rb.trace_len = p.trace_len /\ rb.flush = 0

\* the trace length is unchanged and the function returns false
EndUnchanged(rb, p) ==
  rb.trace_len = p.trace_len /\ (rb.flush = 0 \/ p.fd > -1)

\* a FLSH is written to the head
EndFlushes(rb, p) ==
  rb.trace_len = p.trace_len /\ rb.flush # 0 /\ p.fd > -1

\* the head is dead and its last record is given up
EndGivesUp(rb, p) ==
  rb.trace_len = p.trace_len /\ rb.flush # 0 /\ p.fd <= -1

rollback_end(rb, p, E, T) ==
  IF EndUnchanged(rb, p)
  THEN [ret |-> FALSE, reverted |-> rb.trace_len, offset |-> rb.offset,
        entry |-> E, undefined |-> FALSE]
  ELSE IF EndGivesUp(rb, p)
  THEN IF rb.trace_len = 0
       THEN [ret |-> TRUE, reverted |-> -1, offset |-> rb.offset,
             entry |-> E, undefined |-> TRUE]
       ELSE [ret |-> TRUE, reverted |-> rb.trace_len - 1,
             offset |-> IF rb.trace_len - 1 > 0 THEN T[rb.trace_len].seen
                        ELSE rb.offset,
             entry |-> revert_trace(E, T[rb.trace_len]), undefined |-> FALSE]
  ELSE [ret |-> TRUE, reverted |-> rb.trace_len, offset |-> rb.offset,
        entry |-> E, undefined |-> FALSE]

(***************************************************************************)
(* possible_fence, compute_fences                                          *)
(***************************************************************************)
possible_fence(E, te) ==
  IF te.seen = INT_MAX \/ te.seen = -1 THEN FALSE
  ELSE IF E[te.entry].level > FILE_READ THEN FALSE
  ELSE TRUE

\* (offset - 64) & ~(64 - 1)
AlignBefore(offset) == (offset - 64) - ((offset - 64) % 64)

\* fences[0]: just before the changed byte, not before what was seen
FirstFence(T, tr, offset) ==
  LET o1 == AlignBefore(offset)
      o2 == IF o1 < T[tr + 1].seen THEN T[tr + 1].seen ELSE o1
  IN [entry |-> T[tr + 1].entry, position |-> IF o2 = -1 THEN 0 ELSE o2,
      time |-> T[tr + 1].time]

\* the trace length of the last process at or below the reverted index, else -1
TargetTrace(P, tr) ==
  LET S == {i \in 1..Len(P) : P[i].trace_len <= tr}
  IN IF S = {} THEN -1
     ELSE P[CHOOSE i \in S : \A j \in S : j <= i].trace_len

\* fault: the loop goes on while fence_pos < 16
FenceRoomMore(F) == Len(F) - 1 < MaxFences

\* the loop goes on while fence_pos < 15
FenceRoom(F) == Len(F) - 1 < MaxFences - 1

\* a fence is (entry, position); time is history, the time of the trace
\* record the fence was planned from
RECURSIVE FenceLoop(_, _, _, _, _, _, _)
FenceLoop(E, T, F, tr, time, delta, target) ==
  IF tr > target /\ FenceRoom(F)
  THEN IF T[tr + 1].time <= time /\ possible_fence(E, T[tr + 1])
       THEN FenceLoop(E, T,
                      Append(F, [entry |-> T[tr + 1].entry,
                                 position |-> IF T[tr + 1].seen = -1 THEN 0
                                              ELSE T[tr + 1].seen,
                                 time |-> T[tr + 1].time]),
                      tr - 1, time - delta, delta * 2, target)
       ELSE FenceLoop(E, T, F, tr - 1, time, delta, target)
  ELSE [fences |-> F, trace |-> tr, abort |-> FALSE]

\* fault: the early return tests trace < 0
compute_fences_lt(P, E, T, tr, offset) ==
  IF tr < 0 THEN [fences |-> <<>>, trace |-> tr, abort |-> FALSE]
  ELSE IF get_process(P).trace_len <= tr
  THEN [fences |-> <<>>, trace |-> tr, abort |-> TRUE]
  ELSE FenceLoop(E, T, <<FirstFence(T, tr, offset)>>, tr, T[tr + 1].time - 10,
                 50, TargetTrace(P, tr))

compute_fences(P, E, T, tr, offset) ==
  IF tr <= 0 THEN [fences |-> <<>>, trace |-> tr, abort |-> FALSE]
  ELSE IF get_process(P).trace_len <= tr
  THEN [fences |-> <<>>, trace |-> tr, abort |-> TRUE]
  ELSE FenceLoop(E, T, <<FirstFence(T, tr, offset)>>, tr, T[tr + 1].time - 10,
                 50, TargetTrace(P, tr))

(***************************************************************************)
(* rollback_processes: pop the processes beyond the target, roll the       *)
(* journal back to the mark of the new head at each pop, revert the trace  *)
(* records down to the new head's trace length.                            *)
(***************************************************************************)
\* pop_process on X = [processes, entry, table, st, log, sigterm, closed]
pop_process(X) ==
  LET n == Len(X.processes)
      p == X.processes[n]
      P1 == SubSeq(X.processes, 1, n - 1)
      mark == IF n - 1 > 0 THEN P1[n - 1].snap ELSE restart
      R == LogRollback(X.entry, X.table, X.st, X.log, mark)
  IN [processes |-> P1, entry |-> R.entry, table |-> R.table, st |-> R.st,
      log |-> R.log, sigterm |-> X.sigterm \cup KillPids({p}),
      closed |-> X.closed \cup KillFds({p})]

\* fault: the loop also pops the process that is exactly at the target
RECURSIVE PopBeyondEq(_, _)
PopBeyondEq(X, target) ==
  IF Len(X.processes) > 0 /\ get_process(X.processes).trace_len >= target
  THEN PopBeyondEq(pop_process(X), target)
  ELSE X

RECURSIVE PopBeyond(_, _)
PopBeyond(X, target) ==
  IF Len(X.processes) > 0 /\ get_process(X.processes).trace_len > target
  THEN PopBeyond(pop_process(X), target)
  ELSE X

rollback_processes(X, T, reverted, target) ==
  LET Y == PopBeyond(X, target)
      tl == IF Len(Y.processes) = 0 THEN 0
            ELSE get_process(Y.processes).trace_len
  IN [Y EXCEPT !.entry = RevertRange(Y.entry, T, tl, reverted)]

(***************************************************************************)
(* end_changes                                                             *)
(***************************************************************************)
End ==
  /\ InTransaction
  /\ LET p == get_process(processes)
         R == rollback_end(rollback, p, entry, trace)
     IN IF ~R.ret
        THEN /\ rollback' = [rollback EXCEPT !.trace_len = NOT_IN_TRANSACTION]
             /\ Did("end", IF EndFlushes(rollback, p) THEN "FLSH" ELSE "false",
                    R.reverted)
             /\ UNCHANGED <<entry, table, st, log, trace, processes, fences,
                            forking, sigterm, closed, aborted>>
        ELSE IF R.undefined
        THEN \* revert_trace(&trace[-1]) reads and writes outside the trace:
             \* the driver crashes, or it goes on with reverted = -1, places
             \* no fence and pops nothing (the head's trace_len is 0)
             \/ /\ aborted' = TRUE
                /\ Did("end", "undefined", R.reverted)
                /\ UNCHANGED <<entry, table, st, log, trace, processes, fences,
                               rollback, forking, sigterm, closed>>
             \/ /\ rollback' = [rollback EXCEPT
                                  !.trace_len = NOT_IN_TRANSACTION]
                /\ Did("end", "true", R.reverted)
                /\ UNCHANGED <<entry, table, st, log, trace, processes, fences,
                               forking, sigterm, closed, aborted>>
        ELSE LET C == compute_fences(processes, R.entry, trace, R.reverted,
                                     R.offset)
                 X == [processes |-> processes, entry |-> R.entry,
                       table |-> table, st |-> st, log |-> log,
                       sigterm |-> sigterm, closed |-> closed]
                 Y == rollback_processes(X, trace, R.reverted, C.trace)
                 tl == IF Len(Y.processes) = 0 THEN 0
                       ELSE get_process(Y.processes).trace_len
             IN IF C.abort
                THEN /\ aborted' = TRUE
                     /\ Did("end", "abort", R.reverted)
                     /\ UNCHANGED <<entry, table, st, log, trace, processes,
                                    fences, rollback, forking, sigterm, closed>>
                ELSE /\ processes' = Y.processes
                     /\ entry' = Y.entry
                     /\ table' = Y.table
                     /\ st' = Y.st
                     /\ log' = Y.log
                     /\ sigterm' = Y.sigterm
                     /\ closed' = Y.closed
                     /\ trace' = SubSeq(trace, 1, tl)
                     /\ fences' = C.fences
                     /\ forking' = FALSE
                     /\ rollback' = [rollback EXCEPT
                                       !.trace_len = NOT_IN_TRANSACTION,
                                       !.offset = R.offset]
                     /\ Did("end", "true", R.reverted)
                     /\ UNCHANGED <<aborted>>


(***************************************************************************)
(* The calls of the transaction made out of order: rollback_begin inside a *)
(* transaction, rollback_end and rollback_add_change outside of one.       *)
(***************************************************************************)
BeginNested ==
  /\ ~aborted
  /\ rollback.trace_len # NOT_IN_TRANSACTION
  /\ Abort("begin")

EndOutside ==
  /\ ~aborted
  /\ rollback.trace_len = NOT_IN_TRANSACTION
  /\ Abort("end")

\* fault: a change notified outside a transaction is ignored
NotifyOutsideIgnored(path, changed) ==
  /\ ~aborted
  /\ rollback.trace_len = NOT_IN_TRANSACTION
  /\ Did("notify", "none", 0)
  /\ UNCHANGED <<entry, table, st, log, trace, processes, fences, rollback,
                 forking, sigterm, closed, aborted>>

NotifyOutside(path, changed) ==
  /\ ~aborted
  /\ rollback.trace_len = NOT_IN_TRANSACTION
  /\ Abort("notify")

(***************************************************************************)
(* scan_entry: an entry that was read from the disk and has no overlay is  *)
(* compared with the file of the disk; detect_changes notifies the offset  *)
(* the scan returns.                                                       *)
(***************************************************************************)
RECURSIVE FirstDiffFrom(_, _, _)
FirstDiffFrom(old, new, i) ==
  IF i < Min(Len(old), Len(new)) /\ old[i + 1] = new[i + 1]
  THEN FirstDiffFrom(old, new, i + 1)
  ELSE i

\* fault: a file that became shorter is changed from its first byte
ScanOffsetShrunk(old, new) ==
  IF Len(new) < Len(old) THEN 0 ELSE FirstDiffFrom(old, new, 0)

\* the offset returned for contents that differ
ScanOffset(old, new) == FirstDiffFrom(old, new, 0)

scan_entry(E, D, path) ==
  LET e == E[path]
      f == D[path]
      old == Bytes(e.fs_data)
      new == Bytes(f.data)
      E1 == [E EXCEPT ![path].fs_stat = f.stat, ![path].pic = NoPic]
  IN IF e.level < FILE_READ \/ e.fs_stat = 0 \/ HasEdit(path)
     THEN [entry |-> E, changed |-> -1]
     ELSE IF ~f.present
     THEN [entry |-> E, changed |-> -1]
     ELSE IF f.stat = e.fs_stat
     THEN [entry |-> E, changed |-> -1]
     ELSE IF old = new
     THEN [entry |-> E1, changed |-> -1]
     ELSE [entry |-> [E1 EXCEPT ![path].fs_data = f.data],
           changed |-> ScanOffset(old, new)]

\* detect_changes for the entry of path: the scan, then rollback_add_change
\* when it returned an offset.  pending tells what the drain of the head's
\* socket finds: nothing (the head is killed) or a request that is not SEEN.
Detect(path, pending) ==
  /\ ~aborted
  /\ LET R == scan_entry(entry, disk, path)
     IN IF R.changed = -1
        THEN /\ entry' = R.entry
             /\ Did("detect", "none", -1)
             /\ UNCHANGED <<processes, sigterm, closed, rollback, aborted>>
        ELSE IF rollback.trace_len = NOT_IN_TRANSACTION
        THEN /\ entry' = R.entry
             /\ aborted' = TRUE
             /\ Did("detect", "abort", R.changed)
             /\ UNCHANGED <<processes, sigterm, closed, rollback>>
        ELSE IF DrainNeeded(path, R.changed)
        THEN /\ entry' = R.entry
             /\ processes' = IF pending = "none" THEN CloseHead(processes)
                             ELSE processes
             /\ sigterm' = IF pending = "none"
                           THEN sigterm \cup KillPids({get_process(processes)})
                           ELSE sigterm
             /\ closed' = IF pending = "none"
                          THEN closed \cup KillFds({get_process(processes)})
                          ELSE closed
             /\ rollback' = [rollback EXCEPT !.flush = 1]
             /\ Did("detect", IF pending = "none" THEN "kill" ELSE "other",
                    R.changed)
             /\ UNCHANGED aborted
        ELSE IF /\ R.entry[path].seen < R.changed
                /\ rollback.trace_len = get_process(processes).trace_len
        THEN /\ entry' = R.entry
             /\ Did("detect", "none", R.changed)
             /\ UNCHANGED <<processes, sigterm, closed, rollback, aborted>>
        ELSE /\ AddChangeTail(R.entry, trace, path, R.changed,
                              rollback.trace_len, rollback.flush)
             /\ UNCHANGED <<processes, sigterm, closed>>
  /\ UNCHANGED <<table, st, log, trace, fences, forking>>

(***************************************************************************)
(* The real file system: a file is written (its stat changes, its content  *)
(* may) or removed.                                                        *)
(***************************************************************************)
DiskWrite(path, k) ==
  /\ ~aborted
  /\ disk[path].stat < MaxStat
  /\ disk' = [disk EXCEPT ![path] = [present |-> TRUE, data |-> k,
                                     stat |-> @.stat + 1]]
  /\ Did("disk", "write", 0)
  /\ UNCHANGED <<entry, table, st, log, trace, processes, fences, rollback,
                 forking, sigterm, closed, aborted>>

DiskRemove(path) ==
  /\ ~aborted
  /\ disk[path].present
  /\ disk' = [disk EXCEPT ![path] = [present |-> FALSE, data |-> 0,
                                     stat |-> @.stat]]
  /\ Did("disk", "remove", 0)
  /\ UNCHANGED <<entry, table, st, log, trace, processes, fences, rollback,
                 forking, sigterm, closed, aborted>>

(***************************************************************************)
(* The driver with a small engine that reads its inputs: every request on  *)
(* an input, every transaction.                                            *)
(***************************************************************************)
InputPaths == ReadPaths \cup MissingPaths

\* the engine opens its main input under file id 0; it probes for the files
\* that do not exist, and opens its outputs and the included file, under the
\* next id
EngineFid(path) == IF path \in ReadPaths THEN 0 ELSE 1

Next ==
  \/ Restart /\ Small
  \/ /\ \E path \in InputPaths, time \in RequestTimes :
          Open(EngineFid(path), path, "r", time)
     /\ Small
  \/ /\ \E fid \in Fids, pos \in Positions, size \in 1..MaxPos,
          time \in RequestTimes : Read(fid, pos, size, time)
     /\ Small
  \/ /\ \E fid \in Fids, pos \in Positions, time \in RequestTimes :
          Seen(fid, pos, time)
     /\ Small
  \/ Chld(FreshPid(processes), FreshPid(processes)) /\ Small
  \/ Eof /\ Small
  \/ Begin /\ Small
  \/ (\E path \in InputPaths, changed \in Positions : Notify(path, changed))
     /\ Small
  \/ /\ \E path \in InputPaths, changed \in Positions :
          NotifyDrainStuck(path, changed)
     /\ Small
  \/ /\ \E path \in InputPaths, changed \in Positions :
          NotifyDrainOther(path, changed)
     /\ Small
  \/ /\ \E path \in InputPaths, changed \in Positions, fid \in Fids,
          pos \in Positions, time \in RequestTimes :
          NotifyDrainSeen(path, changed, fid, pos, time)
     /\ Small
  \/ End /\ Small

Spec == Init /\ [][Next]_vars

(***************************************************************************)
(* The driver with an engine that also writes its outputs and caches       *)
(* picture bounds: the requests that change the virtual file system.       *)
(***************************************************************************)
SmallVfs ==
  /\ Track
  /\ Len(trace') <= MaxTrace
  /\ Len(log') <= MaxVfsLog
  /\ Len(processes') <= MaxFleet

NextVfs ==
  \/ Restart /\ SmallVfs
  \/ (\E path \in InputPaths : Open(EngineFid(path), path, "r", LastTime))
     /\ SmallVfs
  \/ (\E path \in WritePaths : Open(EngineFid(path), path, "w", LastTime))
     /\ SmallVfs
  \/ (\E fid \in Fids : Read(fid, 0, 1, 600)) /\ SmallVfs
  \/ /\ \E fid \in Fids \cup {-1}, pos \in Positions, size \in 1..MaxPos :
          Writ(fid, pos, size)
     /\ SmallVfs
  \/ (\E fid \in Fids : Clos(fid)) /\ SmallVfs
  \/ (\E fid \in Fids, pos \in Positions : Seen(fid, pos, LastTime)) /\ SmallVfs
  \/ Chld(FreshPid(processes), FreshPid(processes)) /\ SmallVfs
  \/ (\E path \in ReadPaths, pic \in Pics : Spic(path, pic)) /\ SmallVfs
  \/ Begin /\ SmallVfs
  \/ (\E path \in InputPaths, changed \in Positions : Notify(path, changed))
     /\ SmallVfs
  \/ End /\ SmallVfs

SpecVfs == Init /\ [][NextVfs]_vars

(***************************************************************************)
(* The driver with an engine that is forked after every observation, until *)
(* the fleet is full and decimated.                                        *)
(***************************************************************************)
\* the head has observed nothing since it was launched or forked
FreshHead ==
  IF process_count = 1 THEN get_process(processes).trace_len = 0
  ELSE get_process(processes).trace_len = processes[process_count - 1].trace_len

Large ==
  /\ Track
  /\ Len(trace') <= MaxFleetTrace
  /\ Len(log') <= MaxFleetTrace + 1

NextFleet ==
  \/ Restart /\ Large
  \/ /\ process_count > 0 /\ FreshHead
     /\ \E path \in InputPaths : Open(EngineFid(path), path, "r", 0)
     /\ Large
  \/ /\ process_count > 0 /\ FreshHead
     /\ \E fid \in Fids : Seen(fid, MaxPos, 0)
     /\ Large
  \/ /\ process_count > 0 /\ ~FreshHead
     /\ \E fid \in Fids : Read(fid, 0, 1, 600)
     /\ Large
  \/ Chld(FreshPid(processes), FreshPid(processes)) /\ Large

SpecFleet == Init /\ [][NextFleet]_vars

(***************************************************************************)
(* The driver with an engine that reads two inputs, every request recorded *)
(* as it is dispatched, and an editor that changes the main input: fences  *)
(* are planned, met, and passed.                                           *)
(***************************************************************************)
\* the time of the last snapshot after a step
SnapTimeAfter(time) ==
  IF last'.op = "restart" THEN 0
  ELSE IF last'.op = "read" /\ last'.res = "FORK" THEN time
  ELSE IF Len(processes') < Len(processes)
  THEN IF Len(processes') <= 1 THEN 0 ELSE -1
  ELSE snap_time

\* the step dispatched the request r
Recorded(r) ==
  /\ TrackSeen
  /\ req' = r
  /\ snap_time' = SnapTimeAfter(r.time)
  /\ UNCHANGED <<inbox, disk, chan, read_at>>
  /\ Len(trace') <= MaxFenceTrace
  /\ Len(log') <= MaxFenceLog
  /\ Len(processes') <= MaxFenceFleet

\* the step is a call of the editor's interface, or a launch of the root
Called == Recorded(req)

SourcePaths == ReadPaths \cup IncludedPaths

NextFence ==
  \/ Restart /\ Called
  \/ \E path \in SourcePaths :
       /\ Open(EngineFid(path), path, "r", LastTime)
       /\ Recorded(Req("open", EngineFid(path), 0, 0, LastTime))
  \/ \E fid \in Fids, pos \in Positions, size \in {0, MaxPos},
        time \in RequestTimes :
       /\ Read(fid, pos, size, time)
       /\ Recorded(Req("read", fid, pos, size, time))
  \/ \E fid \in Fids, pos \in Positions, time \in RequestTimes :
       /\ Seen(fid, pos, time)
       /\ Recorded(Req("seen", fid, pos, 0, time))
  \/ /\ Chld(FreshPid(processes), FreshPid(processes))
     /\ Recorded(Req("chld", -1, 0, 0, LastTime))
  \/ Begin /\ Called
  \/ (\E changed \in Positions : Notify("a.tex", changed)) /\ Called
  \/ End /\ Called

SpecFence == Init /\ [][NextFence]_vars

(***************************************************************************)
(* The driver with an engine that reads its input bit by bit and probes    *)
(* for a missing file between two reads, over a long time, then an edit of *)
(* the input: the planner has more trace records than fences to place.     *)
(***************************************************************************)
PlanTimes == {t \in {0, FarTime} : t >= LastTime}

\* the step is one of the long run
Planned ==
  /\ Track
  /\ Len(trace') <= MaxPlanTrace
  /\ Len(log') <= MaxPlanTrace + 2

\* the next observation of the engine: the input was read one byte further
NextSeen == entry["a.tex"].seen + 1

NextPlan ==
  \/ Restart /\ Planned
  \/ /\ process_count > 0 /\ table[0] = NULL
     /\ Open(0, "a.tex", "r", LastTime)
     /\ Planned
  \/ /\ process_count > 0 /\ table[0] # NULL
     /\ ~Coalesces(Cur, "none.tex")
     /\ Open(1, "none.tex", "r", LastTime)
     /\ Planned
  \/ /\ process_count > 0 /\ table[0] # NULL
     /\ ~Coalesces(Cur, "a.tex")
     /\ NextSeen <= MaxPlanPos
     /\ \E time \in PlanTimes : Seen(0, NextSeen, time)
     /\ Planned
  \/ Begin /\ Planned
  \/ Notify("a.tex", entry["a.tex"].seen) /\ Planned
  \/ End /\ Planned

SpecPlan == Init /\ [][NextPlan]_vars

(***************************************************************************)
(* The driver with an engine whose requests wait in the socket until the   *)
(* driver reads them, by step() or by the drain of an edit.  The calls of  *)
(* one transaction follow each other at once: what the drain finds is what *)
(* the engine wrote before the transaction began.                          *)
(***************************************************************************)
\* the step leaves q in the socket of the head and dispatched r
Queued(q, r) ==
  /\ TrackSeen
  /\ inbox' = q
  /\ req' = r
  /\ UNCHANGED <<snap_time, disk, chan, read_at>>
  /\ Len(inbox') <= MaxInbox
  /\ Len(trace') <= MaxTrace
  /\ Len(log') <= MaxLog
  /\ Len(processes') <= MaxFleet

\* the time stamp of a request is not before the one written before it
SendTimes ==
  {t \in RequestTimes : inbox # <<>> => t >= inbox[Len(inbox)].time}

SendRequests ==
  {Req("seen", 0, pos, 0, t) : pos \in Positions, t \in SendTimes}
    \cup {Req("read", 0, 0, MaxPos, t) : t \in SendTimes}

\* the socket of the head after end_changes()
InboxAfterEnd == IF processes' = processes THEN inbox ELSE <<>>

NextDrain ==
  \/ Restart /\ Queued(<<>>, req)
  \/ /\ inbox = <<>>
     /\ Open(0, "a.tex", "r", LastTime)
     /\ Queued(<<>>, Req("open", 0, 0, 0, LastTime))
  \/ /\ rollback.trace_len = NOT_IN_TRANSACTION
     /\ \E r \in SendRequests : Send(r) /\ Queued(Append(inbox, r), req)
  \/ /\ inbox # <<>> /\ Head(inbox).kind = "seen"
     /\ Seen(Head(inbox).fid, Head(inbox).pos, Head(inbox).time)
     /\ Queued(Tail(inbox), Head(inbox))
  \/ /\ inbox # <<>> /\ Head(inbox).kind = "read"
     /\ Read(Head(inbox).fid, Head(inbox).pos, Head(inbox).size,
             Head(inbox).time)
     /\ Queued(Tail(inbox), Head(inbox))
  \/ /\ inbox = <<>>
     /\ Chld(FreshPid(processes), FreshPid(processes))
     /\ Queued(<<>>, Req("chld", -1, 0, 0, LastTime))
  \/ inbox = <<>> /\ Idle /\ Queued(inbox, req)
  \/ Begin /\ Queued(inbox, req)
  \/ \E changed \in Positions :
       /\ Notify("a.tex", changed)
       /\ Queued(inbox, Req("notify", 0, changed, 0, 0))
  \/ \E changed \in Positions :
       /\ inbox = <<>>
       /\ NotifyDrainStuck("a.tex", changed)
       /\ Queued(<<>>, Req("drain", 0, changed, 0, 0))
  \/ \E changed \in Positions :
       /\ inbox # <<>> /\ Head(inbox).kind # "seen"
       /\ NotifyDrainOther("a.tex", changed)
       /\ Queued(inbox, Req("drain", 0, changed, 0, 0))
  \/ \E changed \in Positions :
       /\ inbox # <<>> /\ Head(inbox).kind = "seen"
       /\ NotifyDrainSeen("a.tex", changed, Head(inbox).fid, Head(inbox).pos,
                          Head(inbox).time)
       /\ Queued(Tail(inbox), Req("drain", 0, changed, 0, 0))
  \/ End /\ Queued(InboxAfterEnd, req)

SpecDrain == Init /\ [][NextDrain]_vars

(***************************************************************************)
(* The driver with an engine that reads the main input and an included     *)
(* file and is never forked, a real file system whose files are written    *)
(* and removed, and an                                                     *)
(* editor that edits the main input, has the file system scanned, and may  *)
(* make its calls out of order.  Every call is recorded.                   *)
(***************************************************************************)
\* a call that names its entry by path
ReqPath(kind, fid, path, pos, mode, time) ==
  [kind |-> kind, fid |-> fid, pos |-> pos, size |-> 0, time |-> time,
   path |-> path, mode |-> mode]

\* the main input is opened under file id 0, the included file under any
ScanFids(path) == IF path \in ReadPaths THEN {0} ELSE Fids

\* the step is a call r of the driver
Scanned(r) ==
  /\ TrackSeen
  /\ req' = r
  /\ UNCHANGED <<inbox, snap_time, disk, chan, read_at>>
  /\ Len(trace') <= MaxScanTrace
  /\ Len(log') <= MaxScanLog

\* the step is a change of the real file system
Outside ==
  /\ TrackSeen
  /\ UNCHANGED <<inbox, req, snap_time, chan, read_at>>

ScanResult(path) == scan_entry(entry, disk, path).changed

NextScan ==
  \/ Restart /\ Scanned(req)
  \/ \E path \in SourcePaths : \E fid \in ScanFids(path) :
       /\ Open(fid, path, "r", LastTime)
       /\ Scanned(ReqPath("open", fid, path, 0, "r", LastTime))
  \/ \E fid \in Fids, pos \in Positions :
       /\ Seen(fid, pos, LastTime)
       /\ Scanned(Req("seen", fid, pos, 0, LastTime))
  \/ Begin /\ Scanned(Req("begin", -1, 0, 0, 0))
  \/ BeginNested /\ Scanned(Req("begin", -1, 0, 0, 0))
  \/ \E path \in ReadPaths, changed \in Positions :
       /\ Notify(path, changed)
       /\ Scanned(ReqPath("notify", -1, path, changed, "", 0))
  \/ \E path \in ReadPaths, changed \in Positions :
       /\ NotifyDrainStuck(path, changed)
       /\ Scanned(ReqPath("notify", -1, path, changed, "", 0))
  \/ \E path \in ReadPaths, changed \in {0} :
       /\ NotifyOutside(path, changed)
       /\ Scanned(ReqPath("notify", -1, path, changed, "", 0))
  \/ \E path \in IncludedPaths, pending \in {"none", "other"} :
       /\ Detect(path, pending)
       /\ Scanned(ReqPath("scan", -1, path, ScanResult(path), "", 0))
  \/ End /\ Scanned(Req("end", -1, 0, 0, 0))
  \/ EndOutside /\ Scanned(Req("end", -1, 0, 0, 0))
  \/ \E path \in IncludedPaths, k \in 1..Len(FileBytes) :
       DiskWrite(path, k) /\ Outside
  \/ \E path \in IncludedPaths : DiskRemove(path) /\ Outside

SpecScan == Init /\ [][NextScan]_vars

(***************************************************************************)
(* The driver with an engine that includes pictures: it sends the bounds   *)
(* of a picture with SPIC and asks for them with GPIC.  The bounds travel  *)
(* as the four bytes of a float; one of the four bounds is modelled.       *)
(***************************************************************************)
PicTypes == {0, 1}
PicPages == {1, 2}
\* the floats the engine sends, as the integer their four bytes make:
\* 0.0f and 1.0f
PicBits == {0, 1065353216}
PicPaths == SourcePaths \cup MissingPaths \cup {"a.log"}

ReqPic(kind, path, type, page, bits) ==
  [kind |-> kind, fid |-> -1, pos |-> 0, size |-> 0, time |-> 0,
   path |-> path, type |-> type, page |-> page, bits |-> bits]

Pictured(r) ==
  /\ TrackSeen
  /\ req' = r
  /\ UNCHANGED <<inbox, snap_time, disk, chan, read_at>>
  /\ Len(trace') <= MaxTrace
  /\ Len(log') <= MaxLog

NextPic ==
  \/ Restart /\ Pictured(NoReq)
  \/ \E path \in SourcePaths \cup MissingPaths :
       /\ Open(EngineFid(path), path, "r", LastTime)
       /\ Pictured(ReqPath("open", EngineFid(path), path, 0, "r", LastTime))
  \/ /\ Open(1, "a.log", "w", LastTime)
     /\ Pictured(ReqPath("open", 1, "a.log", 0, "w", LastTime))
  \/ \E path \in PicPaths, type \in PicTypes, page \in PicPages,
        bits \in PicBits :
       /\ Spic(path, ParsedPic(type, page, bits))
       /\ Pictured(ReqPic("spic", path, type, page, bits))
  \/ \E path \in PicPaths, type \in PicTypes, page \in PicPages :
       /\ Gpic(path, type, page)
       /\ Pictured(ReqPic("gpic", path, type, page, 0))

SpecPic == Init /\ [][NextPic]_vars

(***************************************************************************)
(* The Channel: the requests as the bytes of the engine's socket.  A       *)
(* 32-bit item is four bytes, the least significant first; a tag packs its *)
(* four letters in that order; a string ends with a zero byte.             *)
(***************************************************************************)
BUF_SIZE == 4096

U32Bytes(n) ==
  <<n % 256, (n \div 256) % 256, (n \div 65536) % 256, (n \div 16777216) % 256>>
BytesU32(b) == b[1] + 256 * b[2] + 65536 * b[3] + 16777216 * b[4]

PACK(a, b, c, d) == d * 16777216 + c * 65536 + b * 256 + a
Q_OPEN == PACK(79, 80, 69, 78)
Q_READ == PACK(82, 69, 65, 68)
Q_SEEN == PACK(83, 69, 69, 78)
Q_CHLD == PACK(67, 72, 76, 68)

\* "TEXPRESSOS01" and "TEXPRESSOC01"
HND_SERVER == <<84, 69, 88, 80, 82, 69, 83, 83, 79, 83, 48, 49>>
HND_CLIENT == <<84, 69, 88, 80, 82, 69, 83, 83, 79, 67, 48, 49>>

\* the characters of the names the engine sends
Name(path) ==
  IF path = "a.tex" THEN <<97, 46, 116, 101, 120>>
  ELSE <<98, 46, 116, 101, 120>>

\* the path a received name stands for; NULL: a name no file, no entry and
\* no overlay of the model has
PathOf(b) ==
  IF \E p \in SourcePaths : Name(p) = b
  THEN CHOOSE p \in SourcePaths : Name(p) = b
  ELSE NULL

\* the handlers look at the first character of the mode only
ModeBytes(mode) == IF mode = "r" THEN <<114>> ELSE <<119>>
ModeOf(b) ==
  IF b = <<>> THEN ""
  ELSE IF b[1] = 114 THEN "r"
  ELSE IF b[1] = 119 THEN "w"
  ELSE ""

\* what one recvmsg returns: bytes, and the fds of its control message
Seg(bytes, fds) == [bytes |-> bytes, fds |-> fds]
\* recvmsg returns 0
EndOfStream == Seg(<<>>, <<>>)

\* the Channel and its socket while a request is read; st is ok, eof (a
\* read returned 0), abort (abort() was called) or block (the read waits)
Chan(i, w, p) == [input |-> i, wire |-> w, passed |-> p, st |-> "ok"]

\* fault: an fd that arrives while one is pending is accepted
read_Overwrites(C, len) ==
  LET seg == Head(C.wire)
      k == Min(len, Len(seg.bytes))
      rest == SubSeq(seg.bytes, k + 1, Len(seg.bytes))
      left == IF rest = <<>> THEN Tail(C.wire)
              ELSE <<Seg(rest, <<>>)>> \o Tail(C.wire)
  IN IF seg.bytes = <<>> THEN [c |-> [C EXCEPT !.st = "eof"], data |-> <<>>]
     ELSE IF Len(seg.fds) = 0
     THEN [c |-> [C EXCEPT !.wire = left], data |-> SubSeq(seg.bytes, 1, k)]
     ELSE IF Len(seg.fds) # 1
     THEN [c |-> [C EXCEPT !.wire = left, !.st = "abort"], data |-> <<>>]
     ELSE [c |-> [C EXCEPT !.wire = left,
                           !.passed = Append(@, seg.fds[1])],
           data |-> SubSeq(seg.bytes, 1, k)]

\* Channel::read_: one recvmsg of at most len bytes; c is the Channel
\* after it, data the bytes received
read_(C, len) ==
  LET seg == Head(C.wire)
      k == Min(len, Len(seg.bytes))
      rest == SubSeq(seg.bytes, k + 1, Len(seg.bytes))
      left == IF rest = <<>> THEN Tail(C.wire)
              ELSE <<Seg(rest, <<>>)>> \o Tail(C.wire)
  IN IF seg.bytes = <<>> THEN [c |-> [C EXCEPT !.st = "eof"], data |-> <<>>]
     ELSE IF Len(seg.fds) = 0
     THEN [c |-> [C EXCEPT !.wire = left], data |-> SubSeq(seg.bytes, 1, k)]
     ELSE IF Len(seg.fds) # 1 \/ C.passed # <<>>
     THEN [c |-> [C EXCEPT !.wire = left, !.st = "abort"], data |-> <<>>]
     ELSE [c |-> [C EXCEPT !.wire = left,
                           !.passed = Append(@, seg.fds[1])],
           data |-> SubSeq(seg.bytes, 1, k)]

\* Channel::load_size: v is what was read
RECURSIVE load_size(_, _, _)
load_size(C, size, acc) ==
  IF size = 0 \/ C.st # "ok" THEN [c |-> C, v |-> acc]
  ELSE IF C.wire = <<>> THEN [c |-> [C EXCEPT !.st = "block"], v |-> acc]
  ELSE LET r == read_(C, size)
       IN load_size(r.c, size - Len(r.data), acc \o r.data)

\* Channel::load_at_least
RECURSIVE load_at_least(_, _)
load_at_least(C, at_least) ==
  IF C.st # "ok" \/ Len(C.input) >= at_least THEN C
  ELSE IF C.wire = <<>> THEN [C EXCEPT !.st = "block"]
  ELSE LET r == read_(C, BUF_SIZE - Len(C.input))
       IN load_at_least([r.c EXCEPT !.input = @ \o r.data], at_least)

\* the Channel after n bytes of the input were taken
Taken(C, n) == [C EXCEPT !.input = SubSeq(@, n + 1, Len(@))]

\* k calls of read_item: v is the items read
RECURSIVE read_items(_, _, _)
read_items(C, k, acc) ==
  IF k = 0 THEN [c |-> C, v |-> acc]
  ELSE LET C1 == load_at_least(C, 4)
       IN IF C1.st # "ok" THEN [c |-> C1, v |-> acc]
          ELSE read_items(Taken(C1, 4), k - 1,
                          Append(acc, BytesU32(SubSeq(C1.input, 1, 4))))

\* Channel::read_zstr over Channel::cgetc, which returns 0 when the stream
\* has ended: v is the string before its terminator
RECURSIVE read_zstr(_, _)
read_zstr(C, acc) ==
  LET C1 == load_at_least(C, 1)
  IN IF C1.st = "eof" THEN [c |-> [C1 EXCEPT !.st = "ok"], v |-> acc]
     ELSE IF C1.st # "ok" THEN [c |-> C1, v |-> acc]
     ELSE IF C1.input[1] = 0 THEN [c |-> Taken(C1, 1), v |-> acc]
     ELSE read_zstr(Taken(C1, 1), Append(acc, C1.input[1]))

Query(kind, time, fid, path, mode, pos, size, pid, fd) ==
  [kind |-> kind, time |-> time, fid |-> fid, path |-> path, mode |-> mode,
   pos |-> pos, size |-> size, pid |-> pid, fd |-> fd]
NoQuery == Query("none", 0, -1, NULL, "", 0, 0, 0, -1)

\* a read_query that returned a request
Parsed(C, q) == [c |-> C, res |-> "query", q |-> q]
\* a read_query that did not: read_item throws when the stream has ended
Failed(C) ==
  [c |-> C, res |-> IF C.st = "eof" THEN "throw" ELSE C.st, q |-> NoQuery]

\* Channel::read_query, Q_OPEN
read_open(C, time) ==
  LET F == read_items(C, 1, <<>>)
      P == read_zstr(F.c, <<>>)
      M == read_zstr(P.c, <<>>)
  IN IF F.c.st # "ok" THEN Failed(F.c)
     ELSE IF P.c.st # "ok" THEN Failed(P.c)
     ELSE IF M.c.st # "ok" THEN Failed(M.c)
     ELSE Parsed(M.c, Query("open", time, F.v[1], PathOf(P.v), ModeOf(M.v),
                            0, 0, 0, -1))

\* Channel::read_query, Q_READ
read_read(C, time) ==
  LET F == read_items(C, 3, <<>>)
  IN IF F.c.st # "ok" THEN Failed(F.c)
     ELSE Parsed(F.c, Query("read", time, F.v[1], NULL, "", F.v[2], F.v[3],
                            0, -1))

\* Channel::read_query, Q_SEEN
read_seen(C, time) ==
  LET F == read_items(C, 2, <<>>)
  IN IF F.c.st # "ok" THEN Failed(F.c)
     ELSE Parsed(F.c, Query("seen", time, F.v[1], NULL, "", F.v[2], 0,
                            0, -1))

\* fault: a CHLD is accepted without an fd
read_chld_no_fd(C, time) ==
  LET F == read_items(C, 1, <<>>)
      n == Len(F.c.passed)
  IN IF F.c.st # "ok" THEN Failed(F.c)
     ELSE IF n = 0
     THEN Parsed(F.c, Query("chld", time, -1, NULL, "", 0, 0, F.v[1], -1))
     ELSE Parsed([F.c EXCEPT !.passed = SubSeq(@, 1, n - 1)],
                 Query("chld", time, -1, NULL, "", 0, 0, F.v[1],
                       F.c.passed[n]))

\* Channel::read_query, Q_CHLD
read_chld(C, time) ==
  LET F == read_items(C, 1, <<>>)
      n == Len(F.c.passed)
  IN IF F.c.st # "ok" THEN Failed(F.c)
     ELSE IF n = 0 THEN Failed([F.c EXCEPT !.st = "abort"])
     ELSE Parsed([F.c EXCEPT !.passed = SubSeq(@, 1, n - 1)],
                 Query("chld", time, -1, NULL, "", 0, 0, F.v[1],
                       F.c.passed[n]))

\* Channel::read_query: res is query, none (the stream ended before a
\* tag), throw, abort or block
read_query(C) ==
  LET T == load_at_least(C, 4)
      tag == BytesU32(SubSeq(T.input, 1, 4))
      H == read_items(Taken(T, 4), 1, <<>>)
  IN IF T.st = "eof" THEN [c |-> T, res |-> "none", q |-> NoQuery]
     ELSE IF T.st # "ok" THEN Failed(T)
     ELSE IF H.c.st # "ok" THEN Failed(H.c)
     ELSE IF tag = Q_OPEN THEN read_open(H.c, H.v[1])
     ELSE IF tag = Q_READ THEN read_read(H.c, H.v[1])
     ELSE IF tag = Q_SEEN THEN read_seen(H.c, H.v[1])
     ELSE IF tag = Q_CHLD THEN read_chld(H.c, H.v[1])
     ELSE Failed([H.c EXCEPT !.st = "abort"])

\* fault: the bytes received stay in the input buffer
reset_keeps_input(C) == C

\* Channel::reset: the input buffer is emptied; the fd received as
\* ancillary data stays where it is
reset(C) == [C EXCEPT !.input = <<>>]

\* Channel::handshake
handshake(C) ==
  LET R == load_size(C, Len(HND_CLIENT), <<>>)
  IN [c |-> R.c, ok |-> IF R.c.st = "eof" THEN TRUE ELSE R.v = HND_CLIENT]

\* the peer has closed its end: a write fails
PeerGone(w) == w # <<>> /\ w[Len(w)] = EndOfStream

\* all the bytes of the segments w
RECURSIVE Flat(_)
Flat(w) == IF w = <<>> THEN <<>> ELSE Head(w).bytes \o Flat(Tail(w))

(***************************************************************************)
(* prepare_process with the handshake: the engine answers hello; hup says  *)
(* whether an engine that is gone was gone before the driver wrote.        *)
(***************************************************************************)
Launch(hello, hup) ==
  /\ ~epipe
  /\ process_count = 0
  /\ \E H \in {handshake(Chan(input, hello, passed))} :
        /\ H.c.st # "block"
        /\ hup => PeerGone(hello)
        /\ req' = [kind |-> "hello", fid |-> -1, pos |-> 0, size |-> 0,
                   time |-> 0, reply |-> Flat(hello), gone |-> PeerGone(hello)]
        /\ IF hup
           THEN /\ ~aborted /\ rollback.trace_len = NOT_IN_TRANSACTION
                /\ epipe' = TRUE
                /\ Did("restart", "epipe", 0)
                /\ UNCHANGED <<entry, table, st, log, trace, processes,
                               fences, rollback, forking, sigterm, closed,
                               aborted, wire, input, passed>>
           ELSE IF H.c.st = "abort" \/ ~H.ok
           THEN /\ ~aborted /\ rollback.trace_len = NOT_IN_TRANSACTION
                /\ Abort("restart")
                /\ UNCHANGED <<wire, input, passed, epipe>>
           ELSE /\ Restart
                /\ wire' = H.c.wire
                /\ input' = IF H.c.st = "eof" THEN input ELSE <<>>
                /\ passed' = H.c.passed
                /\ epipe' = FALSE

(***************************************************************************)
(* step() on a head that has something pending: read_query, answer_query,  *)
(* flush.  hup says whether a peer that has closed its end is gone for     *)
(* writing too.                                                            *)
(***************************************************************************)
\* the exception of read_item is caught: the socket is closed, the process
\* is not signalled
Thrown ==
  /\ CanStep
  /\ processes' = CloseHead(processes)
  /\ closed' = closed \cup KillFds({get_process(processes)})
  /\ Did("step", "throw", 0)
  /\ UNCHANGED <<entry, table, st, log, trace, fences, rollback, forking,
                 sigterm, aborted>>

Dispatch(q) ==
  IF q.kind = "open"
  THEN IF q.path = NULL
       THEN CanStep /\ ~forking /\ q.mode # "r" /\ Abort("open")
       ELSE Open(q.fid, q.path, q.mode, q.time)
  ELSE IF q.kind = "read" THEN Read(q.fid, q.pos, q.size, q.time)
  ELSE IF q.kind = "seen" THEN Seen(q.fid, q.pos, q.time)
  ELSE Chld(q.pid, q.fd)

Step(hup) ==
  /\ CanStep /\ ~epipe
  /\ input # <<>> \/ wire # <<>>
  /\ \E R \in {read_query(Chan(input, wire, passed))} :
        /\ R.res # "block"
        /\ passed' = R.c.passed
        /\ req' = [R.q EXCEPT !.kind = IF R.res = "query" THEN @ ELSE R.res]
        /\ IF R.res = "abort"
           THEN /\ Abort("step")
                /\ wire' = R.c.wire /\ input' = R.c.input /\ epipe' = FALSE
                /\ ~hup
           ELSE IF R.res = "none"
           THEN /\ Eof
                /\ wire' = R.c.wire /\ input' = R.c.input /\ epipe' = FALSE
                /\ ~hup
           ELSE IF R.res = "throw"
           THEN /\ Thrown
                /\ wire' = R.c.wire /\ input' = R.c.input /\ epipe' = FALSE
                /\ ~hup
           ELSE /\ \E q \in {R.q} : Dispatch(q)
                /\ wire' = IF R.q.kind = "chld" /\ ~aborted' THEN <<>>
                           ELSE R.c.wire
                /\ input' = IF R.q.kind = "chld" /\ ~aborted'
                            THEN reset(R.c).input
                            ELSE R.c.input
                /\ hup => (PeerGone(R.c.wire) /\ R.q.kind # "seen"
                           /\ ~aborted')
                /\ epipe' = hup

(***************************************************************************)
(* The engine: it writes a request when the driver has read all it wrote,  *)
(* a CHLD with the socket of its child after a FORK; it may attach fds to  *)
(* what it writes, write a request in two pieces, or die while writing.    *)
(***************************************************************************)
OpenBytes(time, fid, path, mode) ==
  U32Bytes(Q_OPEN) \o U32Bytes(time) \o U32Bytes(fid)
    \o Name(path) \o <<0>> \o ModeBytes(mode) \o <<0>>
ReadBytes(time, fid, pos, size) ==
  U32Bytes(Q_READ) \o U32Bytes(time) \o U32Bytes(fid)
    \o U32Bytes(pos) \o U32Bytes(size)
SeenBytes(time, fid, pos) ==
  U32Bytes(Q_SEEN) \o U32Bytes(time) \o U32Bytes(fid) \o U32Bytes(pos)
ChldBytes(time, pid) ==
  U32Bytes(Q_CHLD) \o U32Bytes(time) \o U32Bytes(pid)

\* the requests the engine may write now, one at a time
EngineRequests ==
  IF forking THEN {ChldBytes(LastTime, FreshPid(processes))}
  ELSE {OpenBytes(LastTime, EngineFid(p), p, "r") : p \in SourcePaths}
       \cup {ReadBytes(600, 0, 0, 1)}
       \cup {SeenBytes(LastTime, 0, pos) : pos \in 1..MaxPos}

\* ... and the observations it may write in one go
EnginePipelined ==
  IF forking THEN {}
  ELSE {SeenBytes(LastTime, 0, 1) \o SeenBytes(LastTime, 0, 2)}

\* where a request is split in two segments (0: it is not)
Splits == {0, 8}
\* after how many bytes the engine dies: before the request, inside the
\* tag, the time, the fid, the path, before the mode, inside the mode
Cuts == {0, 2, 6, 10, 14, 18, 19}
\* the fds a segment may carry
FdsSent == {<<>>, <<FreshPid(processes)>>,
            <<FreshPid(processes), FreshPid(processes) + 1>>}
\* what the engine may answer to the handshake
Hellos ==
  {<<Seg(HND_CLIENT, <<>>)>>,
   <<Seg(SubSeq(HND_CLIENT, 1, 6), <<>>), Seg(SubSeq(HND_CLIENT, 7, 12), <<>>)>>,
   <<Seg(HND_SERVER, <<>>)>>,
   <<Seg(SubSeq(HND_CLIENT, 1, 5), <<>>), EndOfStream>>,
   <<EndOfStream>>}

EngineWaits ==
  /\ CanStep /\ ~epipe
  /\ wire = <<>> /\ input = <<>>

EngineSend(msg, split, fds1, fds2) ==
  /\ EngineWaits
  /\ wire' = IF split = 0
             THEN <<Seg(msg, fds1)>>
             ELSE <<Seg(SubSeq(msg, 1, split), fds1),
                    Seg(SubSeq(msg, split + 1, Len(msg)), fds2)>>
  /\ split = 0 => fds2 = <<>>
  /\ Did("send", "none", split)
  /\ UNCHANGED <<entry, table, st, log, trace, processes, fences, rollback,
                 forking, sigterm, closed, aborted, req, input, passed,
                 epipe>>

EngineDie(msg, cut) ==
  /\ EngineWaits
  /\ cut < Len(msg)
  /\ wire' = IF cut = 0 THEN <<EndOfStream>>
             ELSE <<Seg(SubSeq(msg, 1, cut), <<>>), EndOfStream>>
  /\ Did("die", "none", cut)
  /\ UNCHANGED <<entry, table, st, log, trace, processes, fences, rollback,
                 forking, sigterm, closed, aborted, req, input, passed,
                 epipe>>

Framed ==
  /\ TrackSeen
  /\ UNCHANGED <<inbox, snap_time, disk, read_at>>
  /\ Len(trace') <= MaxTrace
  /\ Len(log') <= MaxLog
  /\ Len(processes') <= MaxFleet

NextChannel ==
  \/ \E hello \in Hellos, hup \in BOOLEAN : Launch(hello, hup) /\ Framed
  \/ \E hup \in BOOLEAN : Step(hup) /\ Framed
  \/ \E msg \in EngineRequests \cup EnginePipelined, split \in Splits,
        fds1 \in FdsSent, fds2 \in FdsSent :
       EngineSend(msg, split, fds1, fds2) /\ Framed
  \/ \E msg \in EngineRequests, cut \in Cuts : EngineDie(msg, cut) /\ Framed

SpecChannel == Init /\ [][NextChannel]_vars

(***************************************************************************)
(* answer_query, query::size                                               *)
(***************************************************************************)
Size(fid) ==
  /\ CanStep /\ ~forking
  /\ IF table[fid] = NULL \/ entry[table[fid]].level < FILE_READ
     THEN Abort("size")
     ELSE /\ Did("size", "SIZE", DataLen(entry, table[fid]))
          /\ UNCHANGED <<entry, table, st, log, trace, processes, fences,
                         rollback, forking, sigterm, closed, aborted>>

(***************************************************************************)
(* The driver with an engine that sends every kind of request.  What the   *)
(* engine writes waits in its socket, in the order it was written; step()  *)
(* reads one request, answers it and flushes.  The engine waits for the    *)
(* answer of every request but SEEN.                                       *)
(***************************************************************************)
\* a SPIC or a GPIC as the engine wrote it
PicQuery(kind, time, path, type, page, bits) ==
  [kind |-> kind, time |-> time, path |-> path, type |-> type, page |-> page,
   bits |-> bits]

\* fault: the request written last is read first
NextRequestNewest(q) == q[Len(q)]

\* read_query takes the oldest bytes of the stream
NextRequest(q) == Head(q)
Unread(q) == Tail(q)

\* answer_query: the handler of each kind of request
Answer(r) ==
  IF r.kind = "open" THEN Open(r.fid, r.path, r.mode, r.time)
  ELSE IF r.kind = "read" THEN Read(r.fid, r.pos, r.size, r.time)
  ELSE IF r.kind = "writ" THEN Writ(r.fid, r.pos, r.size)
  ELSE IF r.kind = "clos" THEN Clos(r.fid)
  ELSE IF r.kind = "size" THEN Size(r.fid)
  ELSE IF r.kind = "seen" THEN Seen(r.fid, r.pos, r.time)
  ELSE IF r.kind = "chld" THEN Chld(r.pid, r.fd)
  ELSE IF r.kind = "gpic" THEN Gpic(r.path, r.type, r.page)
  ELSE Spic(r.path, ParsedPic(r.type, r.page, r.bits))

\* the requests the engine may write when it is not forking
AskedNow ==
  {Query("open", t, 0, "a.tex", "r", 0, 0, 0, -1) : t \in SendTimes}
    \cup {Query("open", t, 1, "a.log", "w", 0, 0, 0, -1) : t \in SendTimes}
    \cup {Query("open", t, 1, "none.tex", "r", 0, 0, 0, -1) : t \in SendTimes}
    \cup {Query("read", t, 0, NULL, "", 0, 1, 0, -1) : t \in SendTimes}
    \cup {Query("writ", t, fid, NULL, "", 0, 1, 0, -1) :
            t \in SendTimes, fid \in {1, -1}}
    \cup {Query("clos", t, 1, NULL, "", 0, 0, 0, -1) : t \in SendTimes}
    \cup {Query("size", t, 0, NULL, "", 0, 0, 0, -1) : t \in SendTimes}
    \cup {Query("seen", t, 0, NULL, "", pos, 0, 0, -1) :
            t \in SendTimes, pos \in 1..MaxPos}
    \cup {PicQuery("gpic", t, "a.tex", 0, 1, 0) : t \in SendTimes}
    \cup {PicQuery("spic", t, "a.tex", 0, 1, 0) : t \in SendTimes}

\* the CHLD that follows a FORK answer
AskedForking ==
  Query("chld", LastTime, -1, NULL, "", 0, 0,
        FreshPid(processes), FreshPid(processes))

\* the engine that was answered FORK has its child write CHLD
SendChld ==
  /\ CanStep /\ forking
  /\ inbox = <<>>
  /\ Did("send", "none", 0)
  /\ UNCHANGED <<entry, table, st, log, trace, processes, fences, rollback,
                 forking, sigterm, closed, aborted>>

\* the step leaves q in the socket of the head and dispatched r
Asked(q, r) ==
  /\ TrackSeen
  /\ inbox' = q
  /\ req' = r
  /\ UNCHANGED <<snap_time, disk, chan, read_at>>
  /\ Len(inbox') <= MaxInbox
  /\ Len(trace') <= MaxTrace
  /\ Len(log') <= MaxVfsLog
  /\ Len(processes') <= MaxFleet

NextAnswer ==
  \/ Restart /\ Asked(<<>>, req)
  \/ \E r \in AskedNow : Send(r) /\ Asked(Append(inbox, r), req)
  \/ SendChld /\ Asked(<<AskedForking>>, req)
  \/ /\ inbox # <<>>
     /\ \E r \in {NextRequest(inbox)} : Answer(r) /\ Asked(Unread(inbox), r)
  \/ inbox = <<>> /\ Idle /\ Asked(inbox, req)

SpecAnswer == Init /\ [][NextAnswer]_vars

(***************************************************************************)
(* The driver with an engine that reads far into the main input and an     *)
(* included file, and an editor that changes the main input at several     *)
(* offsets, near and far, in one transaction.  The smallest offset changed *)
(* in the transaction is recorded.                                         *)
(***************************************************************************)
WidePositions == {1, FarPos}
WideOffsets == {1, FarOffset}

\* the step is a call r of the driver
Wide(r) ==
  /\ TrackSeen
  /\ req' = r
  /\ UNCHANGED <<inbox, snap_time, disk, chan, read_at>>
  /\ Len(trace') <= MaxWideTrace
  /\ Len(log') <= MaxWideLog

\* the smallest offset changed so far in the transaction
SmallestChanged == IF req.kind = "notify" THEN req.pos ELSE INT_MAX

NextWide ==
  \/ Restart /\ Wide(req)
  \/ \E path \in SourcePaths :
       /\ Open(EngineFid(path), path, "r", LastTime)
       /\ Wide(Req("open", EngineFid(path), 0, 0, LastTime))
  \/ \E fid \in Fids, pos \in WidePositions, time \in RequestTimes :
       /\ Seen(fid, pos, time)
       /\ Wide(Req("seen", fid, pos, 0, time))
  \/ Begin /\ Wide(Req("begin", -1, 0, 0, 0))
  \/ \E changed \in WideOffsets :
       /\ Notify("a.tex", changed)
       /\ Wide(Req("notify", 0, Min(SmallestChanged, changed), 0, 0))
  \/ End /\ Wide(req)

SpecWide == Init /\ [][NextWide]_vars

(***************************************************************************)
(* The driver over its Channel with an engine that writes whole requests,  *)
(* a CHLD with the socket of its child after a FORK, and an editor that    *)
(* changes the main input: the drain of a transaction reads the head's     *)
(* socket into the Channel, end_changes() pops processes.                  *)
(***************************************************************************)
\* process_pending_messages when something is pending: peek_query loads the
\* tag (and whatever recvmsg returns with it) into the input buffer; a SEEN
\* is read and dispatched, any other request stays in the buffer
NotifyPeek(path, changed) ==
  /\ InTransaction
  /\ DrainNeeded(path, changed)
  /\ ~epipe
  /\ input # <<>> \/ wire # <<>>
  /\ \E T \in {load_at_least(Chan(input, wire, passed), 4)} :
       /\ T.st \in {"ok", "abort"}
       /\ IF T.st = "abort"
          THEN /\ Abort("notify")
               /\ req' = [NoQuery EXCEPT !.kind = "abort"]
               /\ wire' = T.wire /\ input' = T.input /\ passed' = T.passed
          ELSE IF BytesU32(SubSeq(T.input, 1, 4)) = Q_SEEN
          THEN \E R \in {read_query(T)} :
                 /\ R.res = "query"
                 /\ NotifyDrainSeen(path, changed, R.q.fid, R.q.pos, R.q.time)
                 /\ req' = R.q
                 /\ wire' = R.c.wire /\ input' = R.c.input
                 /\ passed' = R.c.passed
          ELSE /\ NotifyDrainOther(path, changed)
               /\ req' = [NoQuery EXCEPT !.kind = "peek"]
               /\ wire' = T.wire /\ input' = T.input /\ passed' = T.passed
  /\ UNCHANGED epipe

\* end_changes(): every pop_process resets the Channel; the socket of the
\* head that resumes has nothing pending
EndChan ==
  /\ End
  /\ IF Len(processes') < Len(processes)
     THEN \E C \in {reset(Chan(input, wire, passed))} :
            /\ input' = C.input
            /\ passed' = C.passed
            /\ wire' = <<>>
     ELSE UNCHANGED <<wire, input, passed>>
  /\ UNCHANGED epipe

\* the engine answers the handshake
GoodHello == <<Seg(HND_CLIENT, <<>>)>>

\* the fd the engine attaches to a request: its child's socket to a CHLD
FdAttached == IF forking THEN <<FreshPid(processes)>> ELSE <<>>

\* the step is a call of the editor that reads nothing from the socket
Kept == Framed /\ UNCHANGED <<req, chan>>

NextHandoff ==
  \/ Launch(GoodHello, FALSE) /\ Framed
  \/ Step(FALSE) /\ Framed
  \/ \E msg \in EngineRequests :
       EngineSend(msg, 0, FdAttached, <<>>) /\ Framed
  \/ Begin /\ Kept
  \/ (\E changed \in Positions : Notify("a.tex", changed)) /\ Kept
  \/ /\ input = <<>> /\ wire = <<>>
     /\ \E changed \in Positions : NotifyDrainStuck("a.tex", changed)
     /\ Kept
  \/ (\E changed \in Positions : NotifyPeek("a.tex", changed)) /\ Framed
  \/ EndChan /\ Framed /\ UNCHANGED req

SpecHandoff == Init /\ [][NextHandoff]_vars

(***************************************************************************)
(* The driver with an engine that reads each of its two inputs from the    *)
(* first byte on, every READ at the offset where its last READ of the file *)
(* ended, and reports a position only after it has read that far.  After   *)
(* a rollback the engine that resumes reads on from what the driver has    *)
(* restored as seen.  An editor changes the main input.                    *)
(***************************************************************************)
\* the step dispatched r and leaves the engine's read offsets at a
Reread(r, a) ==
  /\ TrackSeen
  /\ req' = r
  /\ read_at' = a
  /\ snap_time' = SnapTimeAfter(r.time)
  /\ UNCHANGED <<inbox, disk, chan>>
  /\ Len(trace') <= MaxFenceTrace
  /\ Len(log') <= MaxFenceLog
  /\ Len(processes') <= MaxFenceFleet

\* a READ answer of n bytes moves the offset n further; FORK moves nothing
ReadAtAfterRead(path, pos) ==
  IF last'.res = "READ" THEN [read_at EXCEPT ![path] = pos + last'.arg]
  ELSE read_at

\* the offsets of the engine that runs after end_changes()
ReadAtAfterEnd ==
  IF processes' = processes THEN read_at
  ELSE [p \in Paths |-> IF entry'[p].seen < 0 THEN 0 ELSE entry'[p].seen]

NextReread ==
  \/ Restart /\ Reread(req, [p \in Paths |-> 0])
  \/ \E path \in SourcePaths :
       /\ Open(EngineFid(path), path, "r", LastTime)
       /\ Reread(Req("open", EngineFid(path), 0, 0, LastTime),
                 [read_at EXCEPT ![path] = 0])
  \/ \E fid \in Fids, size \in 1..MaxPos, time \in {LastTime} :
       /\ table[fid] # NULL
       /\ Read(fid, read_at[table[fid]], size, time)
       /\ Reread(Req("read", fid, read_at[table[fid]], size, time),
                 ReadAtAfterRead(table[fid], read_at[table[fid]]))
  \/ \E fid \in Fids, pos \in Positions, time \in RequestTimes :
       /\ table[fid] # NULL
       /\ pos <= read_at[table[fid]]
       /\ Seen(fid, pos, time)
       /\ Reread(Req("seen", fid, pos, 0, time), read_at)
  \/ /\ Chld(FreshPid(processes), FreshPid(processes))
     /\ Reread(Req("chld", -1, 0, 0, LastTime), read_at)
  \/ Begin /\ Reread(req, read_at)
  \/ (\E changed \in Positions : Notify("a.tex", changed))
       /\ Reread(req, read_at)
  \/ End /\ Reread(req, ReadAtAfterEnd)

SpecReread == Init /\ [][NextReread]_vars

(***************************************************************************)
(* Properties.                                                             *)
(***************************************************************************)
\* the step is a call of end_changes()
EndStep == InTransaction /\ last'.op = "end"
\* ... that returned true
EndTrue == EndStep /\ last'.res = "true"
\* the step dispatches a CHLD
ChldStep == CanStep /\ forking /\ last'.op = "chld"
\* ... on a full fleet
ChldFull == ChldStep /\ process_count = MaxProcesses
\* the step is a call of step() on an empty fleet
RestartStep == ~aborted /\ process_count = 0 /\ last'.op = "restart"

Pids(P) == {P[i].pid : i \in 1..Len(P)}
\* the C index of the record of pid in P
IndexOf(P, pid) == (CHOOSE i \in 1..Len(P) : P[i].pid = pid) - 1
Killed(p, S, C) == p.pid \in S /\ (p.fd # -1 => p.fd \in C)

(***************************************************************************)
(* C1.  After end() returned true with reverted trace index r > 0, the     *)
(* fleet is the prefix of the former fleet made of the processes with      *)
(* trace_len <= r: every process with trace_len > r was popped (SIGTERM,   *)
(* socket closed), no process with trace_len <= r was.                     *)
(***************************************************************************)
C1Popped(r) ==
  /\ Len(processes') <= Len(processes)
  /\ \A i \in 1..Len(processes') : processes'[i] = processes[i]
  /\ \A i \in 1..Len(processes) :
       IF processes[i].trace_len > r
       THEN i > Len(processes') /\ Killed(processes[i], sigterm', closed')
       ELSE i <= Len(processes')

C1HeadAfterEnd == [][EndTrue /\ last'.arg > 0 => C1Popped(last'.arg)]_vars

\* end() returned true at r > 0, popped a fork and kept a process at or below r
C1Witness ==
  /\ last.op = "end" /\ last.res = "true" /\ last.arg > 0
  /\ process_count > 0
  /\ get_process(processes).trace_len <= last.arg
  /\ get_process(processes).snap # NoMark

(***************************************************************************)
(* C2.  The requests dispatched after a snapshot's journal mark was taken  *)
(* do not change what popping back to the snapshot restores: the entries   *)
(* (seen, level, output length, fs_data, fs_stat, pic_cache), the cells    *)
(* and the output slots after a rollback to the mark are the same before   *)
(* and after every OPEN, WRIT, CLOS, SEEN and SPIC.                        *)
(***************************************************************************)
RequestStep ==
  /\ CanStep /\ ~aborted'
  /\ last'.op \in {"open", "writ", "clos", "seen", "spic"}

Restored(E, T, S, L, mark) ==
  LET R == LogRollback(E, T, S, L, mark)
  IN <<R.entry, R.table, R.st>>

C2JournalCovers ==
  [][RequestStep =>
       \A i \in 1..(process_count - 1) :
         Restored(entry', table', st', log', processes[i].snap)
           = Restored(entry, table, st, log, processes[i].snap)]_vars

(***************************************************************************)
(* C3.  Reverting the records of a suffix of the trace in reverse order    *)
(* restores every entry's seen to the value it had when the trace had the  *)
(* length of the remaining prefix (seen_at).  Inside a transaction the     *)
(* entries are already reverted down to rollback.trace_len.                *)
(***************************************************************************)
RevertedTo ==
  IF rollback.trace_len = NOT_IN_TRANSACTION THEN Len(trace)
  ELSE rollback.trace_len

C3RevertRestoresSeen ==
  process_count > 0 /\ RevertedTo >= 0 =>
    \A k \in 0..RevertedTo :
      SeenMap(RevertRange(entry, trace, k, RevertedTo))
        = IF k < Len(trace) THEN seen_at[k + 1] ELSE SeenMap(entry)

\* a transaction reverted a suffix of a trace built across a fork
C3Witness ==
  /\ InTransaction /\ last.op = "notify"
  /\ rollback.trace_len < Len(trace)
  /\ rollback.trace_len > 0
  /\ process_count >= 2

(***************************************************************************)
(* C4.  As stated: the process list has strictly increasing trace_len.     *)
(***************************************************************************)
C4StrictlyIncreasing ==
  \A i \in 1..process_count : \A j \in 1..process_count :
    i < j => processes[i].trace_len < processes[j].trace_len

(***************************************************************************)
(* C4, amended.  The process list has non-decreasing trace_len: a forked   *)
(* child starts at the trace length of its parent.                         *)
(***************************************************************************)
C4NonDecreasing ==
  \A i \in 1..process_count : \A j \in 1..process_count :
    i < j => processes[i].trace_len <= processes[j].trace_len

\* a fleet of three: a fork that moved past the root, and its fresh child
C4Witness ==
  /\ process_count >= 3
  /\ processes[1].trace_len < processes[2].trace_len
  /\ last.op = "chld"

(***************************************************************************)
(* C5.  The number of process records is between 0 and 32: a CHLD on a     *)
(* full fleet decimates before it appends.                                 *)
(***************************************************************************)
C5FleetBounded == process_count >= 0 /\ process_count <= MaxProcesses

\* a CHLD arrived on a full fleet: decimated, then appended
C5Witness ==
  /\ last.op = "chld"
  /\ sigterm # {}
  /\ process_count = MaxProcesses - DecimateBound(MaxProcesses) + 1

(***************************************************************************)
(* C6.  A CHLD, decimating or not, leaves the record at index 0 in place:  *)
(* the root is still at index 0, was not sent SIGTERM, its socket is open. *)
(***************************************************************************)
C6RootKept ==
  [][ChldStep =>
       /\ processes'[1].pid = processes[1].pid
       /\ processes[1].pid \notin sigterm'
       /\ processes[1].fd \notin closed']_vars

(***************************************************************************)
(* C7.  Decimation of a full fleet keeps the 8 most recent records and,    *)
(* among the older ones, keeps those at even indices and discards those    *)
(* at odd indices.                                                         *)
(***************************************************************************)
C7EvenSurvive ==
  [][ChldFull =>
       \A c \in 0..(MaxProcesses - 1) :
         (processes[c + 1].pid \in Pids(SubSeq(processes', 1, process_count' - 1)))
           <=> (c >= MaxProcesses - 8 \/ c % 2 = 0)]_vars

(***************************************************************************)
(* C8.  A CHLD on a full fleet leaves at most 20 of the former records, in *)
(* their former order; the evicted processes were sent SIGTERM and their   *)
(* sockets closed, the surviving ones were not.                            *)
(***************************************************************************)
C8Survivors == SubSeq(processes', 1, Len(processes') - 1)

C8Decimated ==
  /\ Len(C8Survivors) <= 20
  /\ Pids(C8Survivors) \subseteq Pids(processes)
  /\ \A i \in 1..Len(C8Survivors) : \A j \in 1..Len(C8Survivors) :
       i < j => IndexOf(processes, C8Survivors[i].pid)
                  < IndexOf(processes, C8Survivors[j].pid)
  /\ \A i \in 1..Len(processes) :
       IF processes[i].pid \in Pids(C8Survivors)
       THEN processes[i].pid \notin sigterm' /\ processes[i].fd \notin closed'
       ELSE processes[i].pid \in sigterm' /\ processes[i].fd \in closed'

C8DecimationEvicts == [][ChldFull => C8Decimated]_vars

\* the 33rd snapshot arrived: twelve processes were evicted
C8Witness ==
  /\ last.op = "chld"
  /\ Cardinality(sigterm) = DecimateBound(MaxProcesses)
  /\ Cardinality(closed) = DecimateBound(MaxProcesses)
  /\ process_count > MaxProcesses - DecimateBound(MaxProcesses)

(***************************************************************************)
(* C9.  As stated: end() returns true iff the trace length changed or a    *)
(* flush was requested, whether or not the head is alive.                  *)
(***************************************************************************)
TraceChanged == rollback.trace_len # get_process(processes).trace_len
HeadDead == get_process(processes).fd = -1

C10Emptied ==
  /\ processes' = <<>>
  /\ fences' = <<>>
  /\ \A i \in 1..Len(processes) : Killed(processes[i], sigterm', closed')

C10Relaunched ==
  /\ Len(log') = restart
  /\ entry' = [p \in Paths |-> NewEntry]
  /\ table' = [f \in Fids |-> NULL]
  /\ st' = [n \in SlotNames |-> NULL]
  /\ Len(processes') = 1
  /\ processes'[1].trace_len = 0
  /\ processes'[1].fd > -1
  /\ processes'[1].pid \notin sigterm'

C10RootRestart ==
  [][/\ EndTrue /\ last'.arg = 0 => C10Emptied
     /\ RestartStep => C10Relaunched]_vars

\* the root was relaunched after an edit that emptied a fleet of forks
C10Witness ==
  /\ last.op = "restart"
  /\ process_count = 1
  /\ sigterm # {}
  /\ rollback.offset >= 0

(***************************************************************************)
(* C11.  Fork handshake.  When the engine that was answered FORK sends     *)
(* CHLD(pid, fd'), the driver appends a record that becomes the head, with *)
(* that pid, that socket and the trace length of the parent; the parent's  *)
(* record gets the journal mark of the fork point; DONE is written to the  *)
(* parent's socket, which is not fd'; the next request is read from fd'.   *)
(***************************************************************************)
C11Handshake ==
  LET parent == get_process(processes)
      child == get_process(processes')
      n == Len(processes')
  IN /\ n >= 2
     /\ child.pid = FreshPid(processes)
     /\ child.fd = FreshPid(processes)
     /\ child.trace_len = parent.trace_len
     /\ processes'[n - 1] = [parent EXCEPT !.snap = LogSnapshot(log)]
     /\ last'.res = "DONE"
     /\ last'.arg = parent.fd
     /\ last'.arg # child.fd
     /\ StepFd(processes') = child.fd
     /\ ~forking'

C11ForkHandshake == [][ChldStep => C11Handshake]_vars

\* a fork that had observed something sent CHLD: DONE went to the old socket
C11Witness ==
  /\ last.op = "chld" /\ last.res = "DONE"
  /\ process_count >= 2
  /\ last.arg = processes[process_count - 1].fd
  /\ processes[process_count - 1].snap = LogSnapshot(log)
  /\ get_process(processes).trace_len > 0
  /\ StepFd(processes) # last.arg

\* the step dispatches a READ, a SEEN
ReadStep == CanStep /\ ~forking /\ last'.op = "read"
SeenStep == CanStep /\ ~forking /\ last'.op = "seen"
\* the fence that is met next
TopFence == fences[Len(fences)]
PopFence == fences' = SubSeq(fences, 1, Len(fences) - 1)

(***************************************************************************)
(* C12.  While a fence is pending the time policy does not fire: a READ    *)
(* dispatched with a fence pending is answered FORK only when it trips the *)
(* top fence, which is popped.                                             *)
(***************************************************************************)
C12NoPolicyUnderFence ==
  [][ReadStep /\ fences # <<>> /\ last'.res = "FORK" =>
       /\ last'.arg = 0
       /\ table[req'.fid] = TopFence.entry
       /\ req'.pos = TopFence.position
       /\ PopFence]_vars

\* a READ was answered READ with a fence pending, at a time at which the
\* policy alone asks for a snapshot
C12Witness ==
  /\ last.op = "read" /\ last.res = "READ" /\ req.kind = "read"
  /\ fences # <<>>
  /\ need_snapshot_nofence(processes, trace, fences, req.time)

(***************************************************************************)
(* C13.  With no fence pending, a READ is answered FORK exactly when more  *)
(* than 500 ms of engine time elapsed since the last snapshot was taken    *)
(* (since the start of the root when there is none) and a trace record was *)
(* pushed since that snapshot.                                             *)
(***************************************************************************)
PushedSinceSnapshot ==
  \/ process_count = 1
  \/ get_process(processes).trace_len # processes[process_count - 1].trace_len

C13PolicyAfterDelay ==
  [][ReadStep /\ fences = <<>> /\ snap_time >= 0 /\ ~aborted' =>
       (last'.res = "FORK"
          <=> (req'.time > 500 + snap_time /\ PushedSinceSnapshot))]_vars

(***************************************************************************)
(* C14.  A READ(fid, pos, size) on the entry of the top fence, the fence   *)
(* at or before pos + size: with the fence exactly at pos the answer is    *)
(* FORK and one fence is popped, also when no byte is to be delivered at   *)
(* pos; else the answer is READ, cut so that it ends at the fence.  No     *)
(* READ answer delivers a byte at or beyond the fence.                     *)
(***************************************************************************)
\* the READ is on the entry of the top fence, which is at or before its end
FenceInRange ==
  /\ fences # <<>>
  /\ table[req'.fid] = TopFence.entry
  /\ TopFence.position <= req'.pos + req'.size

C14FenceRead ==
  [][ReadStep /\ ~aborted' =>
       /\ FenceInRange =>
            IF TopFence.position = req'.pos
            THEN last'.res = "FORK" /\ PopFence
            ELSE /\ last'.res = "READ"
                 /\ req'.pos + last'.arg = TopFence.position
                 /\ UNCHANGED fences
       /\ (/\ fences # <<>> /\ table[req'.fid] = TopFence.entry
           /\ last'.res = "READ") =>
            req'.pos + last'.arg <= TopFence.position]_vars

(***************************************************************************)
(* C15.  A SEEN(fid, pos) with pos past the position of any pending fence  *)
(* on the same entry aborts the driver and updates neither the trace nor   *)
(* the entry.                                                              *)
(***************************************************************************)
PastSomeFence ==
  \E i \in 1..Len(fences) :
    fences[i].entry = table[req'.fid] /\ fences[i].position < req'.pos

C15SeenPastAnyFence ==
  [][SeenStep /\ PastSomeFence =>
       aborted' /\ trace' = trace /\ entry' = entry]_vars

(***************************************************************************)
(* C16.  The fences that are planned are at most 16, each at a position    *)
(* >= 0, and from the first to the last they are backed by trace records   *)
(* of non-increasing time.                                                 *)
(***************************************************************************)
C16FencesPlanned ==
  /\ Len(fences) <= MaxFences
  /\ \A i \in 1..Len(fences) : fences[i].position >= 0
  /\ \A i \in 1..Len(fences) : \A j \in 1..Len(fences) :
       i < j => fences[i].time >= fences[j].time

\* the planner stopped at the sixteenth fence with trace records left
C16Witness ==
  /\ last.op = "end" /\ last.res = "true"
  /\ Len(fences) = MaxFences
  /\ fences[1].time = FarTime
  /\ fences[MaxFences].position > 0

(***************************************************************************)
(* C17.  When step() finds the head's socket at end of stream, the socket  *)
(* is closed and the head is popped; with an earlier snapshot in the fleet *)
(* that snapshot is the head and the job is running; the job is terminated *)
(* only when no process remains.                                           *)
(***************************************************************************)
EofStep == CanStep /\ last'.op = "eof"

C17EofPopsHead ==
  [][EofStep =>
       /\ get_process(processes).fd \in closed'
       /\ processes' = SubSeq(processes, 1, process_count - 1)
       /\ process_count > 1 => Running'
       /\ ~Running' => process_count' = 0]_vars

\* the step is a call of notify_file_changes() that polled the head's socket
DrainStep == InTransaction /\ last'.op = "notify" /\ req'.kind = "drain"
\* the step is a call of step() that found nothing pending
IdleStep == CanStep /\ last'.op = "step"

\* the socket without the SEEN requests at its front
RECURSIVE DropSeens(_)
DropSeens(q) ==
  IF q = <<>> \/ Head(q).kind # "seen" THEN q ELSE DropSeens(Tail(q))

(***************************************************************************)
(* C18.  The drain of notify_file_changes() consumes every SEEN queued at  *)
(* the front of the head's socket, up to the first request that is not a   *)
(* SEEN, before the change is compared with what was seen.                 *)
(***************************************************************************)
C18DrainsEverySeen ==
  [][DrainStep /\ ~aborted' => inbox' = DropSeens(inbox)]_vars

(***************************************************************************)
(* C19.  A head that has nothing pending when an edit drains its socket is *)
(* killed: SIGTERM, socket closed.  A head that has nothing pending when   *)
(* step() polls it is left alone, and nothing is dispatched.               *)
(***************************************************************************)
C19StuckKilledIdleSpared ==
  [][/\ DrainStep /\ inbox = <<>> =>
          /\ last'.res = "kill"
          /\ get_process(processes).fd # -1
          /\ get_process(processes).pid \in sigterm'
          /\ get_process(processes).fd \in closed'
          /\ get_process(processes').fd = -1
     /\ IdleStep =>
          /\ inbox = <<>>
          /\ UNCHANGED <<entry, table, st, log, trace, processes, fences,
                         rollback, forking, sigterm, closed, aborted,
                         inbox>>]_vars

\* the drain of an edit killed a fork that had nothing pending
C19Witness ==
  /\ last.op = "notify" /\ last.res = "kill" /\ req.kind = "drain"
  /\ process_count >= 2
  /\ get_process(processes).fd = -1
  /\ get_process(processes).pid \in sigterm
  /\ processes[process_count - 1].pid \notin sigterm

(***************************************************************************)
(* C20.  As stated: a change beyond what the engine has seen, the first of *)
(* its transaction, kills no process; the end of a transaction that made   *)
(* only such changes reverts no trace record, pops no process and rolls    *)
(* the journal back to no snapshot.                                        *)
(***************************************************************************)
\* notify_file_changes(a.tex, changed) with changed beyond seen, nothing
\* reverted before, and no SEEN in the socket that reaches the change
AppendStep ==
  /\ InTransaction /\ last'.op = "notify"
  /\ req'.kind \in {"notify", "drain"}
  /\ entry["a.tex"].seen < req'.pos
  /\ rollback.trace_len = get_process(processes).trace_len
  /\ rollback.offset = -1
  /\ (inbox # <<>> /\ Head(inbox).kind = "seen") => Head(inbox).pos < req'.pos

\* end_changes() after changes that were all beyond what was seen
AppendEnd ==
  /\ EndStep /\ last.op = "notify"
  /\ entry["a.tex"].seen < req.pos
  /\ rollback.trace_len = get_process(processes).trace_len
  /\ rollback.offset = -1

NothingKilled ==
  /\ sigterm' = sigterm /\ closed' = closed
  /\ Len(processes') = Len(processes)
  /\ get_process(processes').fd = get_process(processes).fd

NothingRolledBack ==
  UNCHANGED <<entry, table, st, log, trace, processes, fences, sigterm,
              closed>>

DetectStep == ~aborted /\ req'.kind = "scan" /\ last'.op \in {"detect", "notify"}
\* the step dispatches an OPEN in read mode on a free file id
OpenReadStep ==
  /\ CanStep /\ ~forking
  /\ last'.op = "open" /\ req'.kind = "open" /\ req'.mode = "r"
  /\ table[req'.fid] = NULL

\* the entry of path was read from the real file system and has no overlay
ReadFromDisk(path) ==
  /\ entry[path].level >= FILE_READ
  /\ entry[path].fs_stat # 0
  /\ ~HasEdit(path)

(***************************************************************************)
(* C21.  When a file the engine has read is removed from the disk, the     *)
(* next scan inside a transaction notifies a change at offset 0 of its     *)
(* entry: the trace is rewound to before the first observation of the      *)
(* entry (its seen is back to -1).                                         *)
(***************************************************************************)
C21RemovalNotified ==
  [][(/\ DetectStep /\ InTransaction
      /\ ReadFromDisk(req'.path)
      /\ entry[req'.path].seen >= 0
      /\ ~disk[req'.path].present) =>
       /\ entry'[req'.path].seen < 0
       /\ rollback'.offset = 0
       /\ rollback'.trace_len < get_process(processes).trace_len]_vars

(***************************************************************************)
(* C22.  begin() inside a transaction aborts the driver, end() outside a   *)
(* transaction aborts, a change notified outside a transaction aborts;     *)
(* after end() returned the driver is in no transaction.                   *)
(***************************************************************************)
C22Bracketing ==
  [][/\ (/\ ~aborted /\ last'.op = "begin"
         /\ rollback.trace_len # NOT_IN_TRANSACTION) => aborted'
     /\ (/\ ~aborted /\ last'.op = "end"
         /\ rollback.trace_len = NOT_IN_TRANSACTION) => aborted'
     /\ (/\ ~aborted /\ last'.op = "notify"
         /\ rollback.trace_len = NOT_IN_TRANSACTION) => aborted'
     /\ (/\ ~aborted /\ last'.op = "detect" /\ last'.arg > -1
         /\ rollback.trace_len = NOT_IN_TRANSACTION) => aborted'
     /\ (EndStep /\ ~aborted') =>
          rollback'.trace_len = NOT_IN_TRANSACTION]_vars

\* begin() was called inside a transaction that had reverted a record
C22Witness ==
  /\ aborted
  /\ last.op = "begin" /\ last.res = "abort"
  /\ rollback.trace_len # NOT_IN_TRANSACTION
  /\ rollback.trace_len < get_process(processes).trace_len

(***************************************************************************)
(* C26.  As stated: an OPEN in read mode of a path with no overlay, no     *)
(* content written by the engine and no file on the disk is answered PASS, *)
(* records seen = INT_MAX and leaves the file cell empty.                  *)
(***************************************************************************)
OpenMissing ==
  /\ OpenReadStep
  /\ ~HasEdit(req'.path)
  /\ entry[req'.path].saved < 0
  /\ ~OnDisk(req'.path)

OpenPassed ==
  /\ last'.res = "PASS"
  /\ entry'[req'.path].seen = INT_MAX
  /\ table' = table
  /\ ~aborted'

C26MissingPass == [][OpenMissing => OpenPassed]_vars

(***************************************************************************)
(* C26, amended.  The OPEN is answered PASS when, besides, the entry holds *)
(* no content loaded from the disk by an earlier OPEN; when it does, the   *)
(* OPEN is answered OPEN and the cell is bound to the entry.               *)
(***************************************************************************)
C26MissingPassUnlessLoaded ==
  [][/\ OpenMissing /\ entry[req'.path].fs_data = 0 => OpenPassed
     /\ OpenMissing /\ entry[req'.path].fs_data # 0 =>
          /\ last'.res = "OPEN"
          /\ table'[req'.fid] = req'.path
          /\ entry'[req'.path].seen = entry[req'.path].seen]_vars

\* the included file was removed before the engine asked for it
C26Witness ==
  /\ last.op = "open" /\ last.res = "PASS"
  /\ req.kind = "open" /\ req.path = "b.tex"
  /\ entry["b.tex"].seen = INT_MAX
  /\ entry["b.tex"].fs_data = 0
  /\ table[req.fid] = NULL
  /\ trace[Len(trace)].entry = "b.tex"

(***************************************************************************)
(* C29.  As stated: for a scanned entry whose identity on the disk has     *)
(* changed the scan returns the offset of the first divergence between the *)
(* old and the new content, 0 when the new content is shorter than the     *)
(* old, -1 when the content has not changed.                               *)
(***************************************************************************)
IdentityChanged(path) ==
  /\ ReadFromDisk(path)
  /\ disk[path].present
  /\ disk[path].stat # entry[path].fs_stat

\* the first offset at which old and new differ, one of them ending there
\* included
Divergence(old, new) ==
  CHOOSE i \in 0..Min(Len(old), Len(new)) :
    /\ \A j \in 1..i : old[j] = new[j]
    /\ i = Min(Len(old), Len(new)) \/ old[i + 1] # new[i + 1]

OldBytes == Bytes(entry[req'.path].fs_data)
NewBytes == Bytes(disk[req'.path].data)

C29ScanOffset ==
  [][DetectStep /\ IdentityChanged(req'.path) =>
       req'.pos = IF OldBytes = NewBytes THEN -1
                  ELSE IF Len(NewBytes) < Len(OldBytes) THEN 0
                  ELSE Divergence(OldBytes, NewBytes)]_vars

(***************************************************************************)
(* C29, amended.  The scan returns the offset of the first divergence,     *)
(* which is the length of the shorter content when one is the beginning of *)
(* the other (not 0 for a file that was cut), and -1 when the content has  *)
(* not changed; the entry then holds the new content and the new stat.     *)
(***************************************************************************)
C29ScanFirstDivergence ==
  [][DetectStep /\ IdentityChanged(req'.path) =>
       /\ req'.pos = IF OldBytes = NewBytes THEN -1
                     ELSE Divergence(OldBytes, NewBytes)
       /\ ~aborted' =>
            /\ Bytes(entry'[req'.path].fs_data) = NewBytes
            /\ entry'[req'.path].fs_stat = disk[req'.path].stat]_vars

\* the included file was cut to its first byte: the scan returned 1
C29Witness ==
  /\ req.kind = "scan" /\ req.pos = 1
  /\ last.op \in {"detect", "notify"}
  /\ Bytes(entry["b.tex"].fs_data) = <<1>>
  /\ entry["b.tex"].fs_stat = disk["b.tex"].stat

(***************************************************************************)
(* C30.  A change of entry e at offset off with e.seen >= off shrinks the  *)
(* trace length of the transaction to the least trace index at which the   *)
(* seen of e became >= off: afterwards e.seen < off, the record at the new *)
(* trace length belongs to e, and every entry's seen is what it was just   *)
(* before that record was pushed (no record below it was reverted).        *)
(***************************************************************************)
ChangeStep ==
  /\ InTransaction /\ ~aborted'
  /\ req'.kind \in {"notify", "scan"}
  /\ last'.op \in {"notify", "detect"}
  /\ req'.pos >= 0
  /\ entry[req'.path].seen >= req'.pos

\* the seen of path once trace[i] (C index, below the transaction's trace
\* length) and the observations coalesced with it were recorded
SeenAfterRecord(path, i) ==
  IF i + 1 < Len(trace) THEN seen_at[i + 2][path] ELSE entry[path].seen

C30ShrinksToFirstSeen ==
  [][ChangeStep =>
       LET e == req'.path
           off == req'.pos
           k == rollback'.trace_len
       IN /\ 0 <= k /\ k < rollback.trace_len
          /\ entry'[e].seen < off
          /\ trace[k + 1].entry = e
          /\ SeenAfterRecord(e, k) >= off
          /\ \A i \in 0..(k - 1) : SeenAfterRecord(e, i) < off
          /\ SeenMap(entry') = seen_at[k + 1]
          /\ rollback'.offset = off]_vars

\* a change of the main input at offset 0 reverted three records, the one
\* of the included file among them
C30Witness ==
  /\ last.op = "notify" /\ last.res = "none"
  /\ req.kind = "notify" /\ req.path = "a.tex" /\ req.pos = 0
  /\ rollback.trace_len = 0
  /\ Len(trace) = 3
  /\ trace[2].entry = "b.tex"
  /\ entry["a.tex"].seen = -1 /\ entry["b.tex"].seen = -1

(***************************************************************************)
(* C27: CLOS(fid) empties the file cell of fid and releases the stdout or  *)
(* the log slot when that slot was bound to the closed entry; it leaves    *)
(* the document and synctex slots as they were.  Whatever is requested     *)
(* later, a bound document or synctex slot changes only by a rollback of   *)
(* the journal below the record of its binding, which empties it.          *)
(***************************************************************************)
ClosStep == ~aborted' /\ last'.op = "clos" /\ last'.res = "DONE"

\* the slot, released when it was bound to path
Released(slot, path) == IF st[slot] = path THEN NULL ELSE st[slot]

\* the journal was cut below a record of the binding of the slot
RolledBackBelow(slot) ==
  /\ Len(log') < Len(log)
  /\ log' = SubSeq(log, 1, Len(log'))
  /\ \E i \in (Len(log') + 1)..Len(log) :
       log[i].kind = "slot" /\ log[i].path = slot

C27WitnessLog ==
  /\ last.op = "clos" /\ last.res = "DONE"
  /\ st["log"] = NULL
  /\ entry["a.log"].level = FILE_WRITE
  /\ \A fid \in Fids : table[fid] # "a.log"

(***************************************************************************)
(* C28: on an entry that has been read, a SPIC(p, t, page, b) followed by  *)
(* GPIC(p, t, page) is answered GPIC with the very bounds b the engine     *)
(* sent; a GPIC of another (type, page) pair, or on an entry that does not *)
(* exist or was not read, is answered PASS; a SPIC repeated changes        *)
(* nothing.                                                                *)
(***************************************************************************)
SpicStep == ~aborted' /\ last'.op = "spic"
GpicStep == ~aborted' /\ last'.op = "gpic"

\* the request before this one was a SPIC of the same path, stored
AfterSpic ==
  /\ last.op = "spic" /\ req.kind = "spic"
  /\ req.path = req'.path
  /\ entry[req.path].level = FILE_READ

C28SpicGpicExact ==
  [][/\ (GpicStep /\ AfterSpic) =>
          IF req'.type = req.type /\ req'.page = req.page
          THEN last'.res = "GPIC" /\ last'.arg = req.bits
          ELSE last'.res = "PASS"
     /\ (GpicStep /\ entry[req'.path].level # FILE_READ) =>
          last'.res = "PASS"
     /\ (SpicStep /\ last.op = "spic" /\ req' = req) => entry' = entry]_vars

(***************************************************************************)
(* C23: the slot of the Channel for an fd received as ancillary data holds *)
(* at most one pending fd in every reachable state: a message that brings  *)
(* an fd while one is pending aborts the driver, so does a message with    *)
(* more than one fd, so does a CHLD parsed while no fd is pending; a CHLD  *)
(* that is parsed takes the pending fd and leaves the slot empty.          *)
(***************************************************************************)
\* the step is one of the driver's
DriverStep == last'.op \notin {"send", "die"}

\* the segments the driver received in the step
Received == SubSeq(wire, 1, Len(wire) - Len(wire'))
FdSegments(w) == {i \in 1..Len(w) : w[i].fds # <<>>}

\* what the driver has not parsed yet
Pending == input \o Flat(wire)
\* ... is a whole CHLD
ChldPending ==
  /\ Len(Pending) >= Len(ChldBytes(0, 0))
  /\ BytesU32(SubSeq(Pending, 1, 4)) = Q_CHLD

C23SlotSteps ==
  /\ (\E i \in FdSegments(Received) : Len(Received[i].fds) # 1) => aborted'
  /\ (passed # <<>> /\ FdSegments(Received) # {}) => aborted'
  /\ Cardinality(FdSegments(Received)) > 1 => aborted'
  /\ (ChldPending /\ passed = <<>> /\ FdSegments(wire) = {}) => aborted'
  /\ (~aborted' /\ last'.op = "chld") =>
       /\ passed' = <<>>
       /\ req'.kind = "chld"
       /\ req'.fd = IF passed # <<>> THEN passed[1]
                    ELSE wire[CHOOSE i \in FdSegments(wire) : TRUE].fds[1]
       /\ get_process(processes').fd = req'.fd

C23OnePendingFd ==
  /\ [](Len(passed) <= 1)
  /\ [][DriverStep => C23SlotSteps]_vars

\* a CHLD took the fd that came with it: the child is the head, on that fd
C23Witness ==
  /\ last.op = "chld" /\ last.res = "DONE"
  /\ req.kind = "chld" /\ req.fd = 2
  /\ process_count = 2 /\ get_process(processes).fd = 2
  /\ passed = <<>>

\* an fd came while one was pending, and the driver aborted
C23WitnessSecondFd ==
  /\ aborted
  /\ last.op = "step"
  /\ Len(passed) = 1

(***************************************************************************)
(* C24, as stated: when the stream of the engine ends before a request is  *)
(* complete (after the tag, inside the body, inside a path or a mode), the *)
(* step finds the end of the stream, the head is closed, and no handler    *)
(* runs: the file system, the journal and the trace are left as they were. *)
(***************************************************************************)
\* the stream has ended, and what is left to parse is the beginning of a
\* request and not all of it
Partial ==
  /\ PeerGone(wire)
  /\ Pending # <<>>
  /\ \E m \in EngineRequests :
       /\ Len(Pending) < Len(m)
       /\ Pending = SubSeq(m, 1, Len(Pending))

C24TruncatedNotDispatched ==
  [][Partial =>
       /\ last'.op = "eof" \/ (last'.op = "step" /\ last'.res = "throw")
       /\ get_process(processes').fd = -1
       /\ ~aborted'
       /\ UNCHANGED <<entry, table, st, log, trace>>]_vars

(***************************************************************************)
(* C25, as stated: the handshake succeeds only when the engine answers the *)
(* twelve bytes TEXPRESSOC01; after any other answer, or the end of the    *)
(* stream before twelve bytes, it fails (the driver stops) and no request  *)
(* of that socket is dispatched.                                           *)
(***************************************************************************)
LaunchStep == process_count = 0 /\ last'.op = "restart"
HandlerOps == {"open", "read", "seen", "chld"}

C25HandshakeExact ==
  [][/\ LaunchStep =>
          /\ (process_count' = 1 /\ ~aborted' /\ ~epipe') =>
                req'.reply = HND_CLIENT
          /\ req'.reply # HND_CLIENT =>
                (process_count' = 0 /\ (aborted' \/ epipe'))
     /\ (req.kind = "hello" /\ req.reply # HND_CLIENT) =>
          last'.op \notin HandlerOps]_vars

(***************************************************************************)
(* C31.  The trace grows only when an entry's seen strictly increases: an  *)
(* OPEN or a SEEN that raises no entry's seen (a repeated read-mode OPEN   *)
(* of a path already recorded as nonexistent among them) pushes no record  *)
(* and leaves the head's trace length as it is.                            *)
(***************************************************************************)
\* the step dispatches an OPEN or a SEEN that the handler does not refuse
ObserveStep == CanStep /\ ~aborted' /\ last'.op \in {"open", "seen"}
\* the step raised the seen of some entry
SeenRaised == \E p \in Paths : entry'[p].seen > entry[p].seen
\* the head's trace_len
HeadLen(P) == get_process(P).trace_len

C31GrowsOnlyOnIncrease ==
  [][ObserveStep /\ ~SeenRaised =>
       HeadLen(processes') = HeadLen(processes)]_vars

(***************************************************************************)
(* C32.  An observation is coalesced into the last trace record only if    *)
(* that record is for the same entry and no snapshot was taken at the      *)
(* head's trace length; no step modifies a trace record below the trace    *)
(* length of a snapshot (a process under the head) that stays in the       *)
(* fleet.                                                                  *)
(***************************************************************************)
\* the step raised the seen of path and pushed no record
CoalescedOn(path) ==
  /\ ObserveStep
  /\ entry'[path].seen > entry[path].seen
  /\ HeadLen(processes') = HeadLen(processes)

\* the processes under the head
Snapshots == {processes[i] : i \in 1..(process_count - 1)}
StillInFleet(q) == \E j \in 1..Len(processes') : processes'[j].pid = q.pid

C32SameEntryNoBoundary(path) ==
  /\ HeadLen(processes) > 0
  /\ trace[HeadLen(processes)].entry = path
  /\ \A q \in Snapshots : q.trace_len # HeadLen(processes)

C32CoalesceKeepsSnapshots ==
  [][/\ \A path \in Paths : CoalescedOn(path) => C32SameEntryNoBoundary(path)
     /\ \A q \in Snapshots :
          StillInFleet(q) =>
            /\ Len(trace') >= q.trace_len
            /\ SubSeq(trace', 1, q.trace_len)
                 = SubSeq(trace, 1, q.trace_len)]_vars

\* an entry was observed again right after a fork: the observation was
\* pushed as a record of its own, next to the record of the same entry
C32Witness ==
  /\ last.op = "seen"
  /\ process_count >= 2
  /\ HeadLen(processes) = processes[process_count - 1].trace_len + 1
  /\ trace[HeadLen(processes)].entry = trace[HeadLen(processes) - 1].entry

(***************************************************************************)
(* C33.  The requests of the head's socket are answered in arrival order,  *)
(* one per step(): the request dispatched is the oldest one waiting, it is *)
(* the only one taken from the socket, an OPEN, READ, WRIT, CLOS, SIZE,    *)
(* CHLD, GPIC or SPIC that is not refused gets one answer (the DONE of a   *)
(* CHLD on the socket the CHLD came from), a SEEN gets none.               *)
(***************************************************************************)
RequestKinds ==
  {"open", "read", "writ", "clos", "size", "seen", "chld", "gpic", "spic"}

\* the answers answer_query writes for a kind of request
AnswersTo(kind) ==
  IF kind = "open" THEN {"OPEN", "PASS"}
  ELSE IF kind = "read" THEN {"READ", "FORK"}
  ELSE IF kind = "size" THEN {"SIZE"}
  ELSE IF kind = "gpic" THEN {"GPIC", "PASS"}
  ELSE IF kind = "seen" THEN {"none"}
  ELSE {"DONE"}

\* the step is a call of step() that read a request
AnswerStep == CanStep /\ inbox # <<>> /\ last'.op \in RequestKinds

C33OneAnswer ==
  LET r == Head(inbox)
  IN /\ req' = r
     /\ inbox' = Tail(inbox)
     /\ last'.op = r.kind
     /\ ~aborted' => last'.res \in AnswersTo(r.kind)
     /\ (r.kind = "chld" /\ ~aborted') => last'.arg = StepFd(processes)

C33AnsweredInOrder == [][AnswerStep => C33OneAnswer]_vars

\* a SEEN was dispatched, unanswered, with the READ the engine wrote after
\* it still waiting in the socket
C33Witness ==
  /\ last.op = "seen" /\ last.res = "none"
  /\ req.kind = "seen"
  /\ inbox # <<>>
  /\ Head(inbox).kind = "read"


(***************************************************************************)
(* C34: within one transaction, once an earlier change has shrunk the      *)
(* trace, a later change notified (or found by the scan) at an offset      *)
(* beyond what its entry has seen is a no-op: the driver does not abort    *)
(* and the trace length of the transaction is unchanged, the entry being   *)
(* the one of the earlier change or another.                               *)
(***************************************************************************)
\* the step is a change at an offset beyond what its entry has seen, in a
\* transaction whose trace is already shrunk
LaterChangeStep ==
  /\ InTransaction
  /\ rollback.trace_len < HeadLen(processes)
  /\ req'.kind \in {"notify", "scan"}
  /\ req'.pos >= 0
  /\ entry[req'.path].seen < req'.pos

C34LaterChangeIsNoOp ==
  [][LaterChangeStep => /\ ~aborted'
                        /\ rollback'.trace_len = rollback.trace_len]_vars


(***************************************************************************)
(* C35: every trace record the transaction reads or reverts is at an index *)
(* i with 0 <= i < the head's trace length; in particular rollback_end,    *)
(* after a drain that killed a head whose trace length is 0, does not      *)
(* revert the record at index -1.                                          *)
(***************************************************************************)
\* the index of the record rollback_end gives up when the head is dead
GivenUpIndex == rollback.trace_len - 1

C35EndRevertsInsideTrace ==
  [][EndStep /\ EndGivesUp(rollback, get_process(processes))
       => /\ 0 <= GivenUpIndex
          /\ GivenUpIndex < HeadLen(processes)]_vars


(***************************************************************************)
(* C37: a FLSH is only written to the socket of a head that is running,    *)
(* never to a process that was answered FORK and whose child's CHLD has    *)
(* not been dispatched, wherever the edit transaction falls between the    *)
(* FORK answer and the CHLD.                                               *)
(***************************************************************************)
\* rollback_end writes a FLSH to the head
FlushStep == EndStep /\ last'.res = "FLSH"

C37FlushOnlyRunning == [][FlushStep => ~forking]_vars


(***************************************************************************)
(* C38: after end() of a transaction with several changes to the same      *)
(* entry, fence 0 is on that entry at a position not greater than the      *)
(* smallest offset changed in the transaction.                             *)
(***************************************************************************)
\* end_changes() of a transaction that changed the main input plans fences
EndPlansFences == EndTrue /\ req.kind = "notify" /\ fences' # <<>>

C38FenceZeroBeforeChange ==
  [][EndPlansFences => /\ fences'[1].entry = "a.tex"
                       /\ fences'[1].position <= SmallestChanged]_vars


(***************************************************************************)
(* C39: fences are popped from the highest index down; of two fences on    *)
(* the same entry the one popped first has the smaller or equal position,  *)
(* and each is at or beyond what the entry has seen in the state the       *)
(* engine resumes from; so the READ of an engine that reads on from the    *)
(* restored position never has a negative length (and never aborts the     *)
(* driver for it).                                                         *)
(***************************************************************************)
\* the step dispatches a READ of an open file
ReadOpenStep ==
  CanStep /\ ~forking /\ last'.op = "read" /\ table[req'.fid] # NULL

\* the length of the READ once the fence on top has clipped it
ClippedLength ==
  ReadCount(entry, fences, table[req'.fid], req'.pos, req'.size)

C39ReadNeverNegative == [][ReadOpenStep => ClippedLength >= 0]_vars


(***************************************************************************)
(* C36: when the head is popped after the CHLD of its child and the fd     *)
(* sent with it were received into the Channel by a drain, and before the  *)
(* CHLD was dispatched, no fd is pending in the Channel afterwards: the    *)
(* next CHLD is accepted.                                                  *)
(***************************************************************************)
\* end_changes() popped the head
PopStep == EndTrue /\ Len(processes') < Len(processes)

C36PopLeavesNoFd == [][PopStep => passed' = <<>>]_vars

(***************************************************************************)
(* C40: whenever the head changes (a CHLD is dispatched, the head is       *)
(* popped, the root is launched again), the input buffer of the Channel    *)
(* holds no byte of the previous head's socket when the first request of   *)
(* the new head is read.                                                   *)
(***************************************************************************)
\* the step leaves a head that is another process than the head before it
HeadChanged ==
  /\ ~aborted'
  /\ processes' # <<>>
  /\ \/ processes = <<>>
     \/ Len(processes') # Len(processes)

C40NewHeadInputEmpty == [][HeadChanged => input' = <<>>]_vars

\* the head was popped with a request of its own read into the Channel by
\* the drain and not dispatched; another process is the head now
C40Witness ==
  /\ last.op = "end" /\ last.res = "true"
  /\ req.kind = "peek"
  /\ process_count >= 1
  /\ input = <<>>

====
